---- MODULE Spec2Model ----
(***************************************************************************)
(* A model of the seed-data generator for the project-management dataset:  *)
(* the temporal sampler (utils/dates.py), the task / subtask generator     *)
(* (generators/tasks.py), the comment, attachment and custom-field         *)
(* generators, and the orchestrator (main.py).                             *)
(*                                                                         *)
(* Time.  A datetime is an integer number of ticks since the midnight that *)
(* starts a Monday; a day has TicksPerDay ticks, so a timestamp keeps a    *)
(* time of day (generate_creation_times draws at one-second resolution)    *)
(* and timedelta.days is a floor division.  An optional value (Python's    *)
(* None or a value) is the empty set or a singleton.                       *)
(*                                                                         *)
(* Collections.  Every record of a collection is produced by the same loop *)
(* body from independent draws, so the model follows one record of each    *)
(* collection (one project, one of its tasks, one subtask of that task, one *)
(* comment ...) through the pipeline, with every draw left open.           *)
(***************************************************************************)
EXTENDS Integers, Sequences, FiniteSets, TLC

\* Resolution of the clock: ticks in one day.
TicksPerDay == 2
\* The configured start date is the midnight that starts this day (day 0 is a
\* Monday, so day 24 is a Thursday).
StartDay == 24
\* The configured end date lies 1..MaxSpanDays whole days after the start.
MaxSpanDays == 5
\* The whole days of an exponential draw (random.expovariate) are 0..MaxOffsetDays.
MaxOffsetDays == 4
\* The identifiers generate_id can return are 1..MaxIds.
MaxIds == 2

VARIABLES
    pc,            \* position in the pipeline
    start_date,    \* main: start_date
    end_date,      \* main: end_date
    project,       \* the project followed: [created_at]
    task,          \* the top-level task followed (a partial dict while it is built)
    subtask,       \* the subtask followed: None or Some(record)
    loc,           \* the locals of the loop body that is running; under SpecMain, what is followed
    comment,       \* the comment followed: None or Some(record)
    attachment,    \* the attachment followed: None or Some(record)
    field_def,     \* the custom field definition followed: None or Some(record)
    value_entry,   \* the custom field value followed: None or Some(record)
    org_size,      \* main: org_size
    num_teams,     \* main: num_teams
    next_id,       \* the number of identifiers generate_id has handed out
    mem,           \* main: the collections the generators have returned
    db,            \* the store: table name -> rows committed
    rng,           \* the state of the process-wide `random` generator
    runs           \* the collections of two successive runs

commentVars == <<comment, attachment>>
fieldVars == <<field_def, value_entry>>
mainVars == <<org_size, num_teams, next_id, mem, db>>
runVars == <<rng, runs>>

\* What the task and subtask generators leave alone.
notTasks == <<commentVars, fieldVars, mainVars, runVars>>
\* What the comment and attachment generators leave alone.
notComments == <<fieldVars, mainVars, runVars>>
\* What the custom field generator leaves alone.
notFields == <<subtask, commentVars, mainVars, runVars>>

vars == <<pc, start_date, end_date, project, task, subtask, loc, notTasks>>

None == {}
NoLocals == <<>>
Some(x) == {x}

----------------------------------------------------------------------------
(* datetime arithmetic *)

Days(n) == n * TicksPerDay

\* timedelta.days: whole days, rounded toward minus infinity.
TimedeltaDays(delta) == delta \div TicksPerDay

\* datetime.weekday(): Monday is 0, Sunday is 6.
Weekday(dt) == (dt \div TicksPerDay) % 7

\* datetime.isoformat(): the date and the time of day, written apart.
IsoFormat(dt) == <<dt \div TicksPerDay, dt % TicksPerDay>>

\* datetime.fromisoformat()
FromIsoFormat(s) == s[1] * TicksPerDay + s[2]

Max(a, b) == IF a >= b THEN a ELSE b
Min(a, b) == IF a <= b THEN a ELSE b

----------------------------------------------------------------------------
(* utils/dates.py *)

\* random_date: the values random.randrange(days_between) can return; empty
\* when days_between <= 0, where randrange raises ValueError.
RandomDateDraws(start, end) == 0 .. (TimedeltaDays(end - start) - 1)

random_date(start, end, random_days) == start + Days(random_days)

\* generate_creation_times, one element of the series: random_seconds is the
\* randint draw, shift the outcome of `random.random() > 0.2`.
CreationTime(start, end, random_seconds, shift) ==
    LET dt == start + random_seconds
        days_to_add == IF (7 - Weekday(dt)) % 7 = 0 THEN 1 ELSE (7 - Weekday(dt)) % 7
        shifted == dt + Days(days_to_add)
    IN  IF Weekday(dt) >= 5 /\ shift
        THEN IF shifted > end THEN shifted - Days(7) ELSE shifted
        ELSE dt

\* The `while due_date.weekday() >= 5: due_date -= 1 day` loop.
RECURSIVE PullOffWeekend(_)
PullOffWeekend(d) == IF Weekday(d) >= 5 THEN PullOffWeekend(d - Days(1)) ELSE d

\* The day offsets generate_due_date draws in its four dated buckets.
DueOffsets == (1 .. 7) \cup (8 .. 30) \cup (31 .. 90) \cup (-14 .. -1)

\* generate_due_date without its `if due_date > end_date` clamp.
due_date_unclamped(created_at, end, days_ahead, weekdays) ==
    LET due == created_at + Days(days_ahead)
    IN  IF weekdays THEN PullOffWeekend(due) ELSE due

\* generate_due_date with a date: days_ahead is the bucket's randint draw,
\* weekdays the outcome of `random.random() < 0.85`.
DueDate(created_at, end, days_ahead, weekdays) ==
    LET due == created_at + Days(days_ahead)
        clamped == IF due > end THEN end
                   ELSE IF due < created_at - Days(30) THEN created_at + Days(1)
                   ELSE due
    IN  IF weekdays THEN PullOffWeekend(clamped) ELSE clamped

\* generate_completion_date for a completed task: cycle_days is
\* min(max(1, int(lognormal)), 60), near the outcome of `random.random() < 0.7`,
\* variance the randint(-3, 7) draw.
CompletionDate(created_at, due_date, end, cycle_days, near, variance) ==
    LET c0 == created_at + Days(cycle_days)
        c1 == IF c0 < created_at THEN created_at + Days(1) ELSE c0
        c2 == IF c1 > end THEN end ELSE c1
    IN  IF due_date # None /\ near
        THEN LET due == CHOOSE d \in due_date : TRUE
             IN  Min(Max(due + Days(variance), created_at + Days(1)), end)
        ELSE c2

\* generate_completion_date without its `if not completed: return None`.
completion_date_ignoring_completed(created_at, due_date, completed, end, cycle_days, near, variance) ==
    Some(CompletionDate(created_at, due_date, end, cycle_days, near, variance))

\* generate_completion_date
generate_completion_date(created_at, due_date, completed, end, cycle_days, near, variance) ==
    IF ~completed THEN None
    ELSE Some(CompletionDate(created_at, due_date, end, cycle_days, near, variance))

----------------------------------------------------------------------------
(* main.py and generators/projects.py: configuration and the project *)

Init ==
    /\ pc = "projects"
    /\ start_date = Days(StartDay)
    /\ end_date \in {Days(StartDay + n) : n \in 1 .. MaxSpanDays}
    /\ project = None
    /\ task = None
    /\ subtask = None
    /\ loc = NoLocals
    /\ comment = None
    /\ attachment = None
    /\ field_def = None
    /\ value_entry = None
    /\ org_size = 0
    /\ num_teams = 0
    /\ next_id = 0
    /\ mem = None
    /\ db = None
    /\ rng = 0
    /\ runs = None

\* generate_projects: the project's creation time.
GenerateProjects ==
    /\ pc = "projects"
    /\ \E k \in RandomDateDraws(start_date, end_date) :
         project' = Some([created_at |-> IsoFormat(random_date(start_date, end_date, k))])
    /\ pc' = "tasks"
    /\ UNCHANGED <<start_date, end_date, task, subtask, loc, notTasks>>

TheProject == CHOOSE p \in project : TRUE
TheTask == CHOOSE t \in task : TRUE
TheSubtask == CHOOSE s \in subtask : TRUE

\* The lower bound generate_tasks hands to generate_creation_times.
TaskWindowStart == Max(FromIsoFormat(TheProject.created_at), start_date)

----------------------------------------------------------------------------
(* generators/tasks.py *)

\* The task dict generate_tasks appends.
TaskRecord(created_at, due_date, completed, completed_at) ==
    [ parent       |-> FALSE,
      due_date     |-> {IsoFormat(d) : d \in due_date},
      created_at   |-> IsoFormat(created_at),
      completed    |-> completed,
      completed_at |-> {IsoFormat(c) : c \in completed_at} ]

\* generate_tasks -> generate_creation_times: the creation time of the task
\* followed, one element of the series (random_seconds and shift are its draws).
GenerateCreationTimes ==
    /\ pc = "tasks"
    /\ \E random_seconds \in 0 .. (end_date - TaskWindowStart), shift \in BOOLEAN :
         loc' = [created_at |-> CreationTime(TaskWindowStart, end_date, random_seconds, shift)]
    /\ pc' = "due_date"
    /\ UNCHANGED <<start_date, end_date, project, task, subtask, notTasks>>

\* generate_tasks -> generate_due_date(created_at, end_date, "realistic")
GenerateDueDate ==
    /\ pc = "due_date"
    /\ \/ loc' = [created_at |-> loc.created_at, due_date |-> None]
       \/ \E days_ahead \in DueOffsets, weekdays \in BOOLEAN :
            loc' = [created_at |-> loc.created_at,
                    due_date |-> Some(DueDate(loc.created_at, end_date, days_ahead, weekdays))]
    /\ pc' = "completion"
    /\ UNCHANGED <<start_date, end_date, project, task, subtask, notTasks>>

\* generate_tasks: the completion draw, generate_completion_date, and the
\* append of the task dict.
GenerateTask ==
    /\ pc = "completion"
    /\ \E completed \in BOOLEAN, cycle_days \in 1 .. 60,
          near \in (IF loc.due_date # None THEN BOOLEAN ELSE {FALSE}) :
       \E variance \in (IF near THEN -3 .. 7 ELSE {0}) :
         task' = Some(TaskRecord(loc.created_at, loc.due_date, completed,
                     generate_completion_date(loc.created_at, loc.due_date, completed,
                                              end_date, cycle_days, near, variance)))
    /\ loc' = NoLocals
    /\ pc' = "subtasks"
    /\ UNCHANGED <<start_date, end_date, project, subtask, notTasks>>

\* The subtask dict generate_subtasks appends.
SubtaskRecord(parent_task, subtask_created, completed, days_to_complete) ==
    [ parent       |-> TRUE,
      due_date     |-> parent_task.due_date,
      created_at   |-> IsoFormat(subtask_created),
      completed    |-> completed,
      completed_at |-> IF completed
                       THEN Some(IsoFormat(subtask_created + Days(days_to_complete)))
                       ELSE None ]

\* generate_subtasks, one iteration of `for i in range(num_subtasks)` for the
\* parent followed: offset is randint(0, 5), days_to_complete randint(1, 7).
GenerateSubtask ==
    /\ pc = "subtasks"
    /\ \E offset \in 0 .. 5, completed \in BOOLEAN :
       \E days_to_complete \in (IF completed THEN 1 .. 7 ELSE {1}) :
         subtask' = Some(SubtaskRecord(TheTask,
                                       FromIsoFormat(TheTask.created_at) + Days(offset),
                                       completed, days_to_complete))
    /\ pc' = "done"
    /\ UNCHANGED <<start_date, end_date, project, task, loc, notTasks>>

Next ==
    \/ GenerateProjects
    \/ GenerateCreationTimes
    \/ GenerateDueDate
    \/ GenerateTask
    \/ GenerateSubtask

Spec == Init /\ [][Next]_vars

----------------------------------------------------------------------------
(* Properties of the task and subtask generators, checked under Spec *)

TasksAndSubtasks == task \cup subtask

\* C1: in every record generate_tasks and generate_subtasks return, completed is
\* true if and only if completed_at is not None.
C1_CompletedIffCompletedAt ==
    \A t \in TasksAndSubtasks : t.completed <=> (t.completed_at # None)

\* A completed and a not completed record have both been generated.
C1_Witness ==
    /\ \E t \in task : t.completed /\ t.completed_at # None
    /\ \E s \in subtask : ~s.completed /\ s.completed_at = None

\* C5: every top-level task is created inside its window:
\* max(project.created_at, start_date) <= created_at <= end_date.
C5_TaskCreatedInWindow ==
    \A t \in task :
        /\ TaskWindowStart <= FromIsoFormat(t.created_at)
        /\ FromIsoFormat(t.created_at) <= end_date

\* C6: every subtask's created_at, and every task's or subtask's completed_at
\* that is not None, is at most end_date.
C6_DerivedTimesBeforeEnd ==
    /\ \A s \in subtask : FromIsoFormat(s.created_at) <= end_date
    /\ \A t \in TasksAndSubtasks : \A c \in t.completed_at : FromIsoFormat(c) <= end_date

----------------------------------------------------------------------------
(* generators/comments.py and generators/attachments.py, over the list      *)
(* tasks + subtasks that main hands them.  The task followed is drawn from  *)
(* the records generate_tasks and generate_subtasks can return.             *)

\* The creation times generate_tasks can give a task of some project.
TaskCreationTimes(start, end) ==
    UNION { { CreationTime(Max(p, start), end, random_seconds, shift) :
                random_seconds \in 0 .. (end - Max(p, start)), shift \in BOOLEAN } :
            p \in { random_date(start, end, k) : k \in RandomDateDraws(start, end) } }

\* The elements of tasks + subtasks, as far as generate_comments and
\* generate_attachments read their times: a task, or a subtask of a task.
TasksPlusSubtasks(start, end) ==
    LET tasks == { TaskRecord(c, None, FALSE, None) : c \in TaskCreationTimes(start, end) }
    IN  tasks \cup { SubtaskRecord(t, FromIsoFormat(t.created_at) + Days(offset), FALSE, 1) :
                       t \in tasks, offset \in 0 .. 5 }

InitComments ==
    /\ pc = "for_task"
    /\ start_date = Days(StartDay)
    /\ end_date \in {Days(StartDay + n) : n \in 1 .. MaxSpanDays}
    /\ project = None
    /\ task \in {Some(t) : t \in TasksPlusSubtasks(start_date, end_date)}
    /\ subtask = None
    /\ loc = NoLocals
    /\ comment = None
    /\ attachment = None
    /\ field_def = None
    /\ value_entry = None
    /\ org_size = 0
    /\ num_teams = 0
    /\ next_id = 0
    /\ mem = None
    /\ db = None
    /\ rng = 0
    /\ runs = None

\* generate_comments, the bounds it puts on a comment time, without them.
NextCommentTimeUnbounded(current_time, end, days_offset) ==
    Some(current_time + Days(days_offset))

\* generate_comments, one iteration of `for _ in range(num_comments)`:
\* days_offset is the whole days of the exponential draw (int() cuts the rest;
\* min() with an integer commutes with it).  None is the `break`.
NextCommentTime(current_time, end, days_offset) ==
    LET bounded == Min(days_offset, TimedeltaDays(end - current_time))
        comment_time == current_time + Days(bounded)
    IN  IF comment_time > end THEN None ELSE Some(comment_time)

\* generate_attachments, one iteration of `for i in range(num_attachments)`:
\* None is the `continue`.
UploadTime(task_created, end, days_offset) ==
    LET bounded == Min(days_offset, TimedeltaDays(end - task_created))
        uploaded_at == task_created + Days(bounded)
    IN  IF uploaded_at > end THEN None ELSE Some(uploaded_at)

\* generate_comments: the draw of num_comments for the task followed.
BeginComments ==
    /\ pc = "for_task"
    /\ \E num_comments \in 0 .. 5 :
         loc' = [left |-> num_comments, current_time |-> FromIsoFormat(TheTask.created_at)]
    /\ pc' = "comment_times"
    /\ UNCHANGED <<start_date, end_date, project, task, subtask, commentVars, notComments>>

\* generate_comments: one comment time, and the comment dict made of it.
GenerateComment ==
    /\ pc = "comment_times"
    /\ loc.left > 0
    /\ \E days_offset \in 0 .. MaxOffsetDays :
         LET next == NextCommentTime(loc.current_time, end_date, days_offset)
         IN  IF next = None
             THEN /\ pc' = "done"
                  /\ loc' = NoLocals
                  /\ UNCHANGED comment
             ELSE LET comment_time == CHOOSE c \in next : TRUE
                  IN  /\ comment' = Some([created_at |-> IsoFormat(comment_time)])
                      /\ loc' = [left |-> loc.left - 1, current_time |-> comment_time]
                      /\ pc' = "comment_times"
    /\ UNCHANGED <<start_date, end_date, project, task, subtask, attachment, notComments>>

\* generate_comments: the task's comments are all made.
EndComments ==
    /\ pc = "comment_times"
    /\ loc.left = 0
    /\ pc' = "done"
    /\ loc' = NoLocals
    /\ UNCHANGED <<start_date, end_date, project, task, subtask, commentVars, notComments>>

\* generate_attachments: the draw of num_attachments for the task followed
\* (0: `continue` to the next task).
BeginAttachments ==
    /\ pc = "for_task"
    /\ \E num_attachments \in 0 .. 4 :
         IF num_attachments = 0
         THEN pc' = "done" /\ loc' = NoLocals
         ELSE pc' = "uploads" /\ loc' = [left |-> num_attachments]
    /\ UNCHANGED <<start_date, end_date, project, task, subtask, commentVars, notComments>>

\* generate_attachments: one attachment of the task.
GenerateAttachment ==
    /\ pc = "uploads"
    /\ \E days_offset \in 0 .. MaxOffsetDays :
         LET up == UploadTime(FromIsoFormat(TheTask.created_at), end_date, days_offset)
         IN  attachment' = IF up = None THEN attachment
                           ELSE Some([uploaded_at |-> IsoFormat(CHOOSE u \in up : TRUE)])
    /\ IF loc.left > 1
       THEN pc' = "uploads" /\ loc' = [left |-> loc.left - 1]
       ELSE pc' = "done" /\ loc' = NoLocals
    /\ UNCHANGED <<start_date, end_date, project, task, subtask, comment, notComments>>

NextComments ==
    \/ BeginComments
    \/ GenerateComment
    \/ EndComments
    \/ BeginAttachments
    \/ GenerateAttachment

SpecComments == InitComments /\ [][NextComments]_vars

\* C2: every comment's created_at and every attachment's uploaded_at is at
\* least the created_at of the task or subtask it belongs to.
C2_NotBeforeTask ==
    /\ \A c \in comment : FromIsoFormat(c.created_at) >= FromIsoFormat(TheTask.created_at)
    /\ \A a \in attachment : FromIsoFormat(a.uploaded_at) >= FromIsoFormat(TheTask.created_at)

\* C3: every comment's created_at and every attachment's uploaded_at is at
\* most the configured end_date.
C3_NotAfterEnd ==
    /\ \A c \in comment : FromIsoFormat(c.created_at) <= end_date
    /\ \A a \in attachment : FromIsoFormat(a.uploaded_at) <= end_date

\* A comment whose offset was cut to the days left before end_date.
C3_Witness ==
    \E c \in comment :
        /\ FromIsoFormat(c.created_at) = end_date
        /\ FromIsoFormat(TheTask.created_at) < end_date

----------------------------------------------------------------------------
(* generators/custom_fields.py *)

\* json.dumps and json.loads of a list of strings.
JsonDumps(v) == <<"json", v>>
JsonLoads(text) == text[2]

\* CustomFieldGenerator.FIELD_TEMPLATES
FIELD_TEMPLATES ==
    { [name |-> "Priority",    type |-> "enum",
       options |-> Some(<<"Low", "Medium", "High", "Critical">>)],
      [name |-> "Status",      type |-> "enum",
       options |-> Some(<<"Not Started", "In Progress", "Blocked", "Done">>)],
      [name |-> "Effort",      type |-> "enum",
       options |-> Some(<<"XS", "S", "M", "L", "XL">>)],
      [name |-> "Sprint",      type |-> "enum",
       options |-> Some(<<"Sprint 1", "Sprint 2", "Sprint 3", "Sprint 4", "Backlog">>)],
      [name |-> "Budget",      type |-> "number",     options |-> None],
      [name |-> "Target Date", type |-> "date",       options |-> None],
      [name |-> "Owner",       type |-> "text",       options |-> None],
      [name |-> "Category",    type |-> "multi_enum",
       options |-> Some(<<"Feature", "Bug", "Enhancement", "Documentation", "Research">>)] }

\* The custom field dict with json.dumps applied to options of None as well.
custom_field_always_dumped(template, id) ==
    [ custom_field_id |-> id,
      name         |-> template.name,
      field_type   |-> template.type,
      enum_options |-> IF template.options = None THEN Some(JsonDumps(<<>>))
                       ELSE {JsonDumps(o) : o \in template.options} ]

\* The custom field dict generate_custom_fields appends for a template.
CustomField(template, id) ==
    [ custom_field_id |-> id,
      name         |-> template.name,
      field_type   |-> template.type,
      enum_options |-> {JsonDumps(o) : o \in {x \in template.options : x # <<>>}} ]

\* The sequences of k distinct positions of a list of n elements.
Samples(n, k) ==
    {q \in [1 .. k -> 1 .. n] : \A i, j \in 1 .. k : i # j => q[i] # q[j]}

\* The draws generate_custom_field_values makes for a definition: the option
\* picked (enum), the options sampled in order (multi_enum), the number drawn
\* from [1, 1000] (number: its two ends), nothing otherwise.
ValueDraws(def) ==
    LET options == IF def.enum_options = None THEN <<>>
                   ELSE JsonLoads(CHOOSE e \in def.enum_options : TRUE)
    IN  CASE def.field_type = "enum" /\ options # <<>> -> 1 .. Len(options)
          [] def.field_type = "multi_enum" /\ options # <<>> ->
                UNION {Samples(Len(options), k) : k \in 1 .. Min(3, Len(options))}
          [] def.field_type = "number" -> {1, 1000}
          [] OTHER -> {0}

\* The value of a number field, written into the text slot.
value_in_wrong_slot(def, for_task, draw) ==
    [ custom_field_id   |-> def.custom_field_id,
      text_value        |-> IF def.field_type \in {"text", "number"}
                            THEN Some("Sample text value") ELSE None,
      number_value      |-> None,
      enum_value        |-> None,
      date_value        |-> IF def.field_type = "date" THEN for_task.due_date ELSE None,
      multi_enum_values |-> None ]

\* generate_custom_field_values: the value_entry of one definition for one task.
CustomFieldValue(def, for_task, draw) ==
    LET options == IF def.enum_options = None THEN <<>>
                   ELSE JsonLoads(CHOOSE e \in def.enum_options : TRUE)
        type == def.field_type
    IN  [ custom_field_id   |-> def.custom_field_id,
          text_value        |-> IF type = "text" THEN Some("Sample text value") ELSE None,
          number_value      |-> IF type = "number" THEN Some(draw) ELSE None,
          enum_value        |-> IF type = "enum" /\ options # <<>>
                                THEN Some(options[draw]) ELSE None,
          date_value        |-> IF type = "date" THEN for_task.due_date ELSE None,
          multi_enum_values |-> IF type = "multi_enum" /\ options # <<>>
                                THEN Some(JsonDumps([i \in DOMAIN draw |-> options[draw[i]]]))
                                ELSE None ]

\* The due dates generate_due_date can give a task created at created_at.
DueDates(created_at, end) ==
    {None} \cup {Some(DueDate(created_at, end, d, w)) : d \in DueOffsets, w \in BOOLEAN}

InitFields ==
    /\ pc = "custom_fields"
    /\ start_date = Days(StartDay)
    /\ end_date \in {Days(StartDay + n) : n \in 1 .. MaxSpanDays}
    /\ project = None
    /\ task \in UNION { {Some(TaskRecord(c, due, FALSE, None)) : due \in DueDates(c, end_date)} :
                         c \in TaskCreationTimes(start_date, end_date) }
    /\ subtask = None
    /\ loc = NoLocals
    /\ comment = None
    /\ attachment = None
    /\ field_def = None
    /\ value_entry = None
    /\ org_size = 0
    /\ num_teams = 0
    /\ next_id = 0
    /\ mem = None
    /\ db = None
    /\ rng = 0
    /\ runs = None

\* generate_custom_fields: one of the templates sampled for the task's project.
GenerateCustomFields ==
    /\ pc = "custom_fields"
    /\ \E template \in FIELD_TEMPLATES, id \in 1 .. MaxIds :
         field_def' = Some(CustomField(template, id))
    /\ pc' = "custom_field_values"
    /\ UNCHANGED <<start_date, end_date, project, task, loc, value_entry, notFields>>

\* generate_custom_field_values: the definition's value for the task, filled
\* in 70% of the draws and skipped otherwise.
GenerateCustomFieldValue ==
    /\ pc = "custom_field_values"
    /\ \/ UNCHANGED value_entry
       \/ \E def \in field_def : \E draw \in ValueDraws(def) :
            value_entry' = Some(CustomFieldValue(def, TheTask, draw))
    /\ pc' = "done"
    /\ UNCHANGED <<start_date, end_date, project, task, loc, field_def, notFields>>

NextFields ==
    \/ GenerateCustomFields
    \/ GenerateCustomFieldValue

SpecFields == InitFields /\ [][NextFields]_vars

\* The five value slots of a value_entry, by the field type each belongs to.
Slot(v, type) ==
    CASE type = "text" -> v.text_value
      [] type = "number" -> v.number_value
      [] type = "enum" -> v.enum_value
      [] type = "date" -> v.date_value
      [] type = "multi_enum" -> v.multi_enum_values

FieldTypes == {"text", "number", "enum", "date", "multi_enum"}

\* The field_type of the definition a value_entry's custom_field_id names.
TypeOf(v) == (CHOOSE d \in field_def : d.custom_field_id = v.custom_field_id).field_type

----------------------------------------------------------------------------
(* Two successive runs of the program with the same configuration.  Every    *)
(* run starts with random.seed(Seed), so the draws it takes from the `random` *)
(* module are a function of the seed: the generator is a state that each     *)
(* draw advances.  uuid.uuid4 (generate_id), numpy.random.lognormal and the  *)
(* Faker instance of UserGenerator are not seeded by random.seed: what they  *)
(* return is open.  A run is followed through its organization, one user,    *)
(* one project and one task of that project.                                 *)

\* random.seed(42)
Seed == 42
\* The number of states of the `random` generator.
RngModulus == 11

RngNext(s) == (s * 5 + 3) % RngModulus
\* random.randrange(n), random.randint(lo, hi) and `random.random() < p`
\* (p in tenths) in generator state s.
randrange(s, n) == s % n
randint(s, lo, hi) == lo + randrange(s, hi - lo + 1)
chance(s, tenths) == randrange(s, 10) < tenths
\* The generator state k draws after s.
RECURSIVE RngAfter(_, _)
RngAfter(s, k) == IF k = 0 THEN s ELSE RngAfter(RngNext(s), k - 1)

\* The values str(uuid.uuid4()) can take.
Uuid4Draws == 1 .. MaxIds
\* The values Faker().name() can take.
FakerNames == {"Allison Hill", "Noah Rhodes"}
\* The values min(max(1, int(np.random.lognormal(...))), 60) can take.
CycleDays == 1 .. 60

notRuns == <<project, task, subtask, commentVars, fieldVars, mainVars>>

InitRuns ==
    /\ pc = "seed"
    /\ start_date = Days(StartDay)
    /\ end_date \in {Days(StartDay + n) : n \in 1 .. MaxSpanDays}
    /\ project = None
    /\ task = None
    /\ subtask = None
    /\ loc = NoLocals
    /\ comment = None
    /\ attachment = None
    /\ field_def = None
    /\ value_entry = None
    /\ org_size = 1
    /\ num_teams = 0
    /\ next_id = 0
    /\ mem = None
    /\ db = None
    /\ rng = 0
    /\ runs = <<>>

\* __main__: random.seed(42), then main()
RunSeed ==
    /\ pc = "seed"
    /\ rng' = Seed % RngModulus
    /\ loc' = NoLocals
    /\ pc' = "organization"
    /\ UNCHANGED <<start_date, end_date, runs, notRuns>>

\* main: org_id = generate_id()
RunOrganization ==
    /\ pc = "organization"
    /\ \E id \in Uuid4Draws : loc' = [organization_id |-> id]
    /\ pc' = "users"
    /\ UNCHANGED <<start_date, end_date, rng, runs, notRuns>>

\* generate_users: the creation time is a `random` draw, the name comes from
\* Faker and the user_id from generate_id.
RunUsers ==
    /\ pc = "users"
    /\ RandomDateDraws(start_date, end_date) # {}
    /\ \E name \in FakerNames, id \in Uuid4Draws :
         LET days_between == TimedeltaDays(end_date - start_date)
             created_at == random_date(start_date, end_date, randrange(rng, days_between))
         IN  loc' = [organization_id |-> loc.organization_id,
                     user |-> [user_id |-> id,
                               organization_id |-> loc.organization_id,
                               name |-> name,
                               created_at |-> IsoFormat(created_at)]]
    /\ rng' = RngNext(rng)
    /\ pc' = "tasks"
    /\ UNCHANGED <<start_date, end_date, runs, notRuns>>

\* generate_projects and generate_tasks for one project and one task: every
\* draw but cycle_days (numpy) and task_id (generate_id) is a `random` draw.
RunTasks ==
    /\ pc = "tasks"
    /\ \E cycle_days \in CycleDays, id \in Uuid4Draws :
         LET days_between == TimedeltaDays(end_date - start_date)
             project_created == random_date(start_date, end_date, randrange(rng, days_between))
             window == Max(project_created, start_date)
             s1 == RngNext(rng)
             s2 == RngNext(s1)
             created_at == CreationTime(window, end_date,
                                        randint(s1, 0, end_date - window), chance(s2, 8))
             s3 == RngNext(s2)
             s4 == RngNext(s3)
             s5 == RngNext(s4)
             offset == randint(s4, -14, 89)
             due_date == IF chance(s3, 1) THEN None
                         ELSE Some(DueDate(created_at, end_date,
                                           IF offset >= 0 THEN offset + 1 ELSE offset,
                                           chance(s5, 8)))
             s6 == RngNext(s5)
             s7 == RngNext(s6)
             s8 == RngNext(s7)
             completed == chance(s6, 7)
             completed_at == generate_completion_date(created_at, due_date, completed, end_date,
                                 cycle_days, due_date # None /\ chance(s7, 7), randint(s8, -3, 7))
             run == [organization_id |-> loc.organization_id,
                     user |-> loc.user,
                     task |-> [task_id |-> id,
                               created_by |-> loc.user.user_id,
                               due_date |-> {IsoFormat(d) : d \in due_date},
                               created_at |-> IsoFormat(created_at),
                               completed |-> completed,
                               completed_at |-> {IsoFormat(c) : c \in completed_at}]]
         IN  runs' = Append(runs, run)
    /\ rng' = RngAfter(rng, 9)
    /\ loc' = NoLocals
    /\ pc' = IF Len(runs) = 0 THEN "seed" ELSE "done"
    /\ UNCHANGED <<start_date, end_date, notRuns>>

NextRuns ==
    \/ RunSeed
    \/ RunOrganization
    \/ RunUsers
    \/ RunTasks

SpecRuns == InitRuns /\ [][NextRuns]_vars

\* C7: two runs with the same seed and the same configuration return the
\* same collections: every field of every record is equal, identifiers, user
\* names and completion dates included.
C7_RunsIdentical ==
    Len(runs) = 2 => runs[1] = runs[2]

----------------------------------------------------------------------------
(* main.py: the pipeline and the store.  A row keeps its own key and its     *)
(* foreign keys.  The organization, the users, the teams, the memberships,   *)
(* the projects, the sections and the tags are generated in full, at sizes   *)
(* scaled down; of the per-task collections (tasks, subtasks, comments,      *)
(* attachments, custom field definitions and values, task tags) one row is   *)
(* followed together with the rows it refers to: a behaviour follows one     *)
(* task, at most one subtask of it, and one row of one of the tables that no *)
(* other table refers to, with the draws that wire each row left open.       *)
(* Identifiers are                                                           *)
(* named by the order in which the rows modelled receive them, so two calls  *)
(* of generate_id never return the same value (uuid4 collisions are left     *)
(* out).  A nullable reference is None or Some(id).                          *)

\* org_size is 0 .. MaxUsers.
MaxUsers == 2
\* num_teams is 0 .. MaxTeams.
MaxTeams == 1
\* main's random.randint(200, 500) projects, scaled to 1 .. MaxProjects.
MaxProjects == 1
\* generate_tags(org_id, 30), scaled to MaxTags tags.
MaxTags == 1
\* tasks_per_project=30, scaled.
TasksPerProject == 5

STANDARD_SECTIONS == <<"To Do", "In Progress", "In Review", "Done">>

Tables ==
    {"organizations", "users", "teams", "team_memberships", "projects", "sections",
     "tags", "tasks", "comments", "attachments", "custom_field_definitions",
     "custom_field_values", "task_tags"}

\* insert_data: nothing is executed for an empty list; otherwise the rows are
\* inserted and committed.
insert_data(conn, table_name, data) ==
    IF data = {} THEN conn ELSE [conn EXCEPT ![table_name] = @ \cup data]

\* The collections main holds before any generator has run.
NoCollections ==
    [ org_id |-> None, users |-> {}, teams |-> {}, team_memberships_dict |-> <<>>,
      projects |-> {}, sections |-> {}, tags |-> {}, tasks |-> {},
      subtasks |-> {}, custom_field_defs |-> {} ]

\* The tables no other table refers to.
LeafTables == {"comments", "attachments", "custom_field_values", "task_tags"}
\* The table whose row the behaviour follows.
Follows(table_name) == loc.follow = table_name

notMain == <<project, task, subtask, loc, commentVars, fieldVars, runVars>>

InitMain ==
    /\ pc = "organization"
    /\ start_date = Days(StartDay)
    /\ end_date \in {Days(StartDay + n) : n \in -1 .. 1}
    /\ project = None
    /\ task = None
    /\ subtask = None
    /\ loc \in {[follow |-> t] : t \in LeafTables}
    /\ comment = None
    /\ attachment = None
    /\ field_def = None
    /\ value_entry = None
    /\ org_size \in 0 .. MaxUsers
    /\ num_teams \in 0 .. MaxTeams
    /\ next_id = 0
    /\ mem = NoCollections
    /\ db = [t \in Tables |-> {}]
    /\ rng = 0
    /\ runs = None

\* main: the organization row is generated and inserted first.
MainOrganization ==
    /\ pc = "organization"
    /\ LET org_id == next_id + 1
       IN  /\ mem' = [mem EXCEPT !.org_id = Some(org_id)]
           /\ db' = insert_data(db, "organizations", {[organization_id |-> org_id]})
    /\ next_id' = next_id + 1
    /\ pc' = "users"
    /\ UNCHANGED <<start_date, end_date, org_size, num_teams, notMain>>

TheOrg == CHOOSE o \in mem.org_id : TRUE

\* main: generate_users, insert_data(users).  random_date raises ValueError
\* when there is no whole day between the dates.
MainUsers ==
    /\ pc = "users"
    /\ IF org_size > 0 /\ RandomDateDraws(start_date, end_date) = {}
       THEN /\ pc' = "failed"
            /\ UNCHANGED <<next_id, mem, db>>
       ELSE LET users == {[user_id |-> next_id + i, organization_id |-> TheOrg] :
                             i \in 1 .. org_size}
            IN  /\ mem' = [mem EXCEPT !.users = users]
                /\ db' = insert_data(db, "users", users)
                /\ next_id' = next_id + org_size
                /\ pc' = "teams"
    /\ UNCHANGED <<start_date, end_date, org_size, num_teams, notMain>>

\* main: generate_teams, insert_data(teams)
MainTeams ==
    /\ pc = "teams"
    /\ IF num_teams > 0 /\ RandomDateDraws(start_date, end_date) = {}
       THEN /\ pc' = "failed"
            /\ UNCHANGED <<next_id, mem, db>>
       ELSE LET teams == {[team_id |-> next_id + i, organization_id |-> TheOrg] :
                             i \in 1 .. num_teams}
            IN  /\ mem' = [mem EXCEPT !.teams = teams]
                /\ db' = insert_data(db, "teams", teams)
                /\ next_id' = next_id + num_teams
                /\ pc' = "memberships"
    /\ UNCHANGED <<start_date, end_date, org_size, num_teams, notMain>>

team_sizes_from_one(users) == {Min(team_size, Cardinality(users)) : team_size \in 1 .. 30}

\* The sizes random.sample(users, min(team_size, len(users))) can have.
TeamSizes(users) == {Min(team_size, Cardinality(users)) : team_size \in 3 .. 30}

\* The place of the pair p among the (team, user) pairs, team by team: the
\* order in which the memberships receive their ids.
Place(pairs, p) ==
    Cardinality({q \in pairs : q[1] < p[1] \/ (q[1] = p[1] /\ q[2] <= p[2])})

\* generate_team_memberships, insert_data(memberships)
MainMemberships ==
    /\ pc = "memberships"
    /\ \E team_users \in [{t.team_id : t \in mem.teams} -> SUBSET {u.user_id : u \in mem.users}] :
         /\ \A t \in DOMAIN team_users : Cardinality(team_users[t]) \in TeamSizes(mem.users)
         /\ LET pairs == {<<t, u>> \in (DOMAIN team_users) \X {usr.user_id : usr \in mem.users} :
                             u \in team_users[t]}
                memberships == {[membership_id |-> next_id + Place(pairs, p), team_id |-> p[1], user_id |-> p[2]] :
                                   p \in pairs}
            IN  /\ mem' = [mem EXCEPT !.team_memberships_dict = team_users]
                /\ db' = insert_data(db, "team_memberships", memberships)
                /\ next_id' = next_id + Cardinality(pairs)
    /\ pc' = "projects"
    /\ UNCHANGED <<start_date, end_date, org_size, num_teams, notMain>>

\* `random.choice(users) if users else None`
Creators(users) == IF users = {} THEN {None} ELSE {Some(u) : u \in users}

\* The project dict generate_projects appends.
ProjectRow(id, team, creator) ==
    [ project_id |-> id,
      team_id    |-> team.team_id,
      created_by |-> {c.user_id : c \in creator} ]

\* _generate_sections: one section per standard name, each with a new id.
SectionRows(project_id, base) ==
    { [ section_id |-> base + i,
        project_id |-> project_id,
        name       |-> STANDARD_SECTIONS[i],
        position   |-> i - 1 ] : i \in 1 .. Len(STANDARD_SECTIONS) }

\* main: generate_projects and insert_data(projects).  random_date raises
\* ValueError on an empty range, random.choice(teams) IndexError on an empty
\* list.
MainProjects ==
    /\ pc = "projects"
    /\ IF RandomDateDraws(start_date, end_date) = {} \/ mem.teams = {}
       THEN /\ pc' = "failed"
            /\ UNCHANGED <<next_id, mem, db>>
       ELSE \E count \in 1 .. MaxProjects :
            \E pick \in [1 .. count -> mem.teams \X Creators(mem.users)] :
              LET width == 1 + Len(STANDARD_SECTIONS)
                  pid(i) == next_id + (i - 1) * width + 1
                  projects == {ProjectRow(pid(i), pick[i][1], pick[i][2]) : i \in 1 .. count}
                  sections == UNION {SectionRows(pid(i), pid(i)) : i \in 1 .. count}
              IN  /\ mem' = [mem EXCEPT !.projects = projects, !.sections = sections]
                  /\ db' = insert_data(db, "projects", projects)
                  /\ next_id' = next_id + count * width
                  /\ pc' = "sections"
    /\ UNCHANGED <<start_date, end_date, org_size, num_teams, notMain>>

\* main: insert_data(sections), the second list generate_projects returned.
MainSections ==
    /\ pc = "sections"
    /\ db' = insert_data(db, "sections", mem.sections)
    /\ pc' = "tags"
    /\ UNCHANGED <<start_date, end_date, org_size, num_teams, next_id, mem, notMain>>

\* main: generate_tags(org_id, 30), insert_data(tags)
MainTags ==
    /\ pc = "tags"
    /\ LET tags == {[tag_id |-> next_id + i, organization_id |-> TheOrg] : i \in 1 .. MaxTags}
       IN  /\ mem' = [mem EXCEPT !.tags = tags]
           /\ db' = insert_data(db, "tags", tags)
    /\ next_id' = next_id + MaxTags
    /\ pc' = "tasks"
    /\ UNCHANGED <<start_date, end_date, org_size, num_teams, notMain>>

\* The lengths the list generate_tasks returns can have: every project draws
\* random.randint(int(tasks_per_project * 0.7), int(tasks_per_project * 1.3)).
TaskCounts(num_projects) ==
    (num_projects * ((TasksPerProject * 7) \div 10)) ..
    (num_projects * ((TasksPerProject * 13) \div 10))

\* team_memberships.get(team_id, [])
TeamMembers(team_memberships, team_id) ==
    IF team_id \in DOMAIN team_memberships THEN team_memberships[team_id] ELSE {}

\* `assignee_id = None`, replaced by random.choice(team_members) when the
\* draw allows it and the team has members.
Assignees(team_members) == {None} \cup {Some(m) : m \in team_members}

\* The keys of the task dict generate_tasks appends.
TaskRow(id, in_project, section, assignee_id, creator) ==
    [ task_id        |-> id,
      project_id     |-> in_project.project_id,
      section_id     |-> section.section_id,
      parent_task_id |-> None,
      assignee_id    |-> assignee_id,
      created_by     |-> {c.user_id : c \in creator} ]

\* main: generate_tasks, insert_data(tasks)
MainTasks ==
    /\ pc = "tasks"
    /\ \E in_project \in mem.projects :
         LET project_sections == {s \in mem.sections : s.project_id = in_project.project_id}
             team_members == TeamMembers(mem.team_memberships_dict, in_project.team_id)
         IN  \E section \in project_sections, assignee_id \in Assignees(team_members),
                creator \in Creators(mem.users) :
               LET t == TaskRow(next_id + 1, in_project, section, assignee_id, creator)
               IN  /\ mem' = [mem EXCEPT !.tasks = {t}]
                   /\ db' = insert_data(db, "tasks", {t})
    /\ next_id' = next_id + 1
    /\ pc' = "subtasks"
    /\ UNCHANGED <<start_date, end_date, org_size, num_teams, notMain>>

\* The subtask dict generate_subtasks appends without its parent reference.
subtask_row_without_parent(id, parent_task) ==
    [ task_id        |-> id,
      project_id     |-> parent_task.project_id,
      section_id     |-> parent_task.section_id,
      parent_task_id |-> None,
      assignee_id    |-> parent_task.assignee_id,
      created_by     |-> parent_task.created_by ]

\* The keys of the subtask dict generate_subtasks appends.
SubtaskRow(id, parent_task) ==
    [ task_id        |-> id,
      project_id     |-> parent_task.project_id,
      section_id     |-> parent_task.section_id,
      parent_task_id |-> Some(parent_task.task_id),
      assignee_id    |-> parent_task.assignee_id,
      created_by     |-> parent_task.created_by ]

\* generate_subtasks appending its subtasks to the list tasks it was given.
subtasks_appended_to_tasks ==
    /\ pc = "subtasks"
    /\ \E tasks_len \in TaskCounts(Cardinality(mem.projects)) :
       LET num_parent_tasks == (tasks_len * 20) \div 100
       IN  \/ /\ Min(num_parent_tasks, tasks_len) >= 1
              /\ \E parent_task \in mem.tasks :
                   LET st == SubtaskRow(next_id + 1, parent_task)
                   IN  /\ mem' = [mem EXCEPT !.subtasks = {st}, !.tasks = mem.tasks \cup {st}]
                       /\ db' = insert_data(db, "tasks", {st})
              /\ next_id' = next_id + 1
           \/ UNCHANGED <<next_id, mem, db>>
    /\ pc' = "comments"
    /\ UNCHANGED <<start_date, end_date, org_size, num_teams, notMain>>

\* main: generate_subtasks(tasks, users, subtask_ratio=0.20), and
\* insert_data(subtasks) `if subtasks`.  The parents are a sample of
\* int(len(tasks) * 0.20) tasks of the list generate_tasks returned; the task
\* followed is one of them or not.
MainSubtasks ==
    /\ pc = "subtasks"
    /\ \E tasks_len \in TaskCounts(Cardinality(mem.projects)) :
       LET num_parent_tasks == (tasks_len * 20) \div 100
       IN  \/ /\ Min(num_parent_tasks, tasks_len) >= 1
              /\ \E parent_task \in mem.tasks :
                   LET st == SubtaskRow(next_id + 1, parent_task)
                   IN  /\ mem' = [mem EXCEPT !.subtasks = {st}]
                       /\ db' = insert_data(db, "tasks", {st})
              /\ next_id' = next_id + 1
           \/ UNCHANGED <<next_id, mem, db>>
    /\ pc' = "comments"
    /\ UNCHANGED <<start_date, end_date, org_size, num_teams, notMain>>

\* `next((u for u in users if u["user_id"] == id), None)`, and
\* random.choice(users) when no user is found.
UserById(users, id) ==
    LET found == {u \in users : u.user_id = id}
    IN  IF found # {} THEN found ELSE users

\* The users the three branches of the commenter / uploader selection can
\* return for a task; empty when random.choice(users) raises IndexError.
Commenters(for_task, users) ==
    UNION {UserById(users, a) : a \in for_task.assignee_id}
      \cup UNION {UserById(users, c) : c \in for_task.created_by}
      \cup users

\* A comment dict that takes its task reference from the task's project.
comment_row_on_project(id, for_task, commenter) ==
    [ comment_id |-> id,
      task_id    |-> for_task.project_id,
      user_id    |-> commenter.user_id ]

\* The keys of the comment dict generate_comments appends.
CommentRow(id, for_task, commenter) ==
    [ comment_id |-> id,
      task_id    |-> for_task.task_id,
      user_id    |-> commenter.user_id ]

\* main: generate_comments(tasks + subtasks, ...), insert_data(comments)
MainComments ==
    /\ pc = "comments"
    /\ \/ \E for_task \in {t \in mem.tasks \cup mem.subtasks : Follows("comments")} :
            IF Commenters(for_task, mem.users) = {}
            THEN /\ pc' = "failed"
                 /\ UNCHANGED <<next_id, db>>
            ELSE \E commenter \in Commenters(for_task, mem.users) :
                   /\ db' = insert_data(db, "comments",
                                        {CommentRow(next_id + 1, for_task, commenter)})
                   /\ next_id' = next_id + 1
                   /\ pc' = "attachments"
       \/ /\ pc' = "attachments"
          /\ UNCHANGED <<next_id, db>>
    /\ UNCHANGED <<start_date, end_date, org_size, num_teams, mem, notMain>>

\* The keys of the attachment dict generate_attachments appends.
AttachmentRow(id, for_task, uploader) ==
    [ attachment_id |-> id,
      task_id       |-> for_task.task_id,
      uploaded_by   |-> Some(uploader.user_id) ]

\* main: generate_attachments(tasks + subtasks, ...), and
\* insert_data(attachments) `if attachments`
MainAttachments ==
    /\ pc = "attachments"
    /\ \/ \E for_task \in {t \in mem.tasks \cup mem.subtasks : Follows("attachments")} :
            IF Commenters(for_task, mem.users) = {}
            THEN /\ pc' = "failed"
                 /\ UNCHANGED <<next_id, db>>
            ELSE \E uploader \in Commenters(for_task, mem.users) :
                   /\ db' = insert_data(db, "attachments",
                                        {AttachmentRow(next_id + 1, for_task, uploader)})
                   /\ next_id' = next_id + 1
                   /\ pc' = "custom_fields"
       \/ /\ pc' = "custom_fields"
          /\ UNCHANGED <<next_id, db>>
    /\ UNCHANGED <<start_date, end_date, org_size, num_teams, mem, notMain>>

\* main with insert_data(custom_field_defs) put off until after the values
\* are inserted: the definitions are generated but not yet in the store.
custom_fields_inserted_late ==
    /\ pc = "custom_fields"
    /\ \/ \E in_project \in {p \in mem.projects : Follows("custom_field_values")} :
            /\ mem' = [mem EXCEPT !.custom_field_defs =
                           {[custom_field_id |-> next_id + 1,
                             project_id |-> in_project.project_id]}]
            /\ next_id' = next_id + 1
            /\ db' = db
       \/ UNCHANGED <<next_id, mem, db>>
    /\ pc' = "custom_field_values"
    /\ UNCHANGED <<start_date, end_date, org_size, num_teams, notMain>>

\* main: generate_custom_fields(projects), insert_data(custom_field_defs)
MainCustomFields ==
    /\ pc = "custom_fields"
    /\ \/ \E in_project \in {p \in mem.projects : Follows("custom_field_values")} :
            LET defs == {[custom_field_id |-> next_id + 1,
                          project_id |-> in_project.project_id]}
            IN  /\ mem' = [mem EXCEPT !.custom_field_defs = defs]
                /\ db' = insert_data(db, "custom_field_definitions", defs)
                /\ next_id' = next_id + 1
       \/ UNCHANGED <<next_id, mem, db>>
    /\ pc' = "custom_field_values"
    /\ UNCHANGED <<start_date, end_date, org_size, num_teams, notMain>>

\* main: generate_custom_field_values(tasks + subtasks, custom_field_defs),
\* insert_data(custom_field_values)
MainCustomFieldValues ==
    /\ pc = "custom_field_values"
    /\ \/ \E for_task \in mem.tasks \cup mem.subtasks :
          \E def \in {d \in mem.custom_field_defs : d.project_id = for_task.project_id} :
            /\ db' = insert_data(db, "custom_field_values",
                                 {[value_id |-> next_id + 1,
                                   task_id |-> for_task.task_id,
                                   custom_field_id |-> def.custom_field_id]})
            /\ next_id' = next_id + 1
       \/ UNCHANGED <<next_id, db>>
    /\ pc' = "task_tags"
    /\ UNCHANGED <<start_date, end_date, org_size, num_teams, mem, notMain>>

\* main: generate_task_tags(tasks + subtasks, tags), and
\* insert_data(task_tags) `if task_tags`
MainTaskTags ==
    /\ pc = "task_tags"
    /\ \/ \E for_task \in {t \in mem.tasks \cup mem.subtasks : Follows("task_tags")},
               tag \in mem.tags :
            db' = insert_data(db, "task_tags",
                              {[task_id |-> for_task.task_id, tag_id |-> tag.tag_id]})
       \/ UNCHANGED db
    /\ pc' = "done"
    /\ UNCHANGED <<start_date, end_date, org_size, num_teams, next_id, mem, notMain>>

\* The positions of main at which the next statement to touch the store is an
\* insert_data call with a list that is not empty.
InsertPending ==
    \/ pc \in {"organization", "sections", "tags", "tasks"}
    \/ pc = "users" /\ org_size > 0 /\ RandomDateDraws(start_date, end_date) # {}
    \/ pc = "teams" /\ num_teams > 0 /\ RandomDateDraws(start_date, end_date) # {}
    \/ pc = "memberships" /\ mem.teams # {} /\ mem.users # {}
    \/ pc = "projects" /\ mem.teams # {} /\ RandomDateDraws(start_date, end_date) # {}
    \/ pc \in {"subtasks", "custom_fields", "task_tags"}
    \/ pc \in {"comments", "attachments"} /\ mem.users # {}
    \/ pc = "custom_field_values" /\ mem.custom_field_defs # {}

\* The store after a failed insert without any rollback.
store_rolled_back(conn) == [t \in Tables |-> {}]

\* The store after conn.executemany or conn.commit has raised in insert_data:
\* nothing catches the exception, Database.__exit__ closes the connection
\* without a commit, so the rows of the failing call are dropped and the rows
\* committed by the earlier calls stay.
StoreAfterFailure(conn) == conn

\* main: the generator of the current position has run and its insert_data
\* raises (a constraint violation, an I/O error); the exception leaves main.
MainInsertFails ==
    /\ InsertPending
    /\ db' = StoreAfterFailure(db)
    /\ pc' = "insert_failed"
    /\ UNCHANGED <<start_date, end_date, org_size, num_teams, next_id, mem, notMain>>

NextMain ==
    \/ MainOrganization
    \/ MainUsers
    \/ MainTeams
    \/ MainMemberships
    \/ MainProjects
    \/ MainSections
    \/ MainInsertFails
    \/ MainTags
    \/ MainTasks
    \/ MainSubtasks
    \/ MainComments
    \/ MainAttachments
    \/ MainCustomFields
    \/ MainCustomFieldValues
    \/ MainTaskTags

SpecMain == InitMain /\ [][NextMain]_vars

\* The values column `key` takes in the rows committed to a table.
Keys(table_name, key) == {r[key] : r \in db[table_name]}

\* C8: when the configured end date is not after the start date, no row has
\* been committed to any table at the moment the run fails.
C8_NoRowBeforeAbort ==
    (pc = "failed" /\ end_date <= start_date) => \A t \in Tables : db[t] = {}

\* C9: after a complete run every foreign key of every committed row is null
\* (where it may be) or the key of a row committed in the same run.
C9_ForeignKeysResolve ==
    pc = "done" =>
      /\ \A r \in db["users"] \cup db["teams"] \cup db["tags"] :
           r.organization_id \in Keys("organizations", "organization_id")
      /\ \A r \in db["team_memberships"] :
           /\ r.team_id \in Keys("teams", "team_id")
           /\ r.user_id \in Keys("users", "user_id")
      /\ \A r \in db["projects"] :
           /\ r.team_id \in Keys("teams", "team_id")
           /\ r.created_by \subseteq Keys("users", "user_id")
      /\ \A r \in db["sections"] : r.project_id \in Keys("projects", "project_id")
      /\ \A r \in db["tasks"] :
           /\ r.project_id \in Keys("projects", "project_id")
           /\ r.section_id \in Keys("sections", "section_id")
           /\ r.assignee_id \subseteq Keys("users", "user_id")
           /\ r.created_by \subseteq Keys("users", "user_id")
           /\ r.parent_task_id \subseteq Keys("tasks", "task_id")
      /\ \A r \in db["comments"] :
           /\ r.task_id \in Keys("tasks", "task_id")
           /\ r.user_id \in Keys("users", "user_id")
      /\ \A r \in db["attachments"] :
           /\ r.task_id \in Keys("tasks", "task_id")
           /\ r.uploaded_by \subseteq Keys("users", "user_id")
      /\ \A r \in db["custom_field_definitions"] :
           r.project_id \in Keys("projects", "project_id")
      /\ \A r \in db["custom_field_values"] :
           /\ r.task_id \in Keys("tasks", "task_id")
           /\ r.custom_field_id \in Keys("custom_field_definitions", "custom_field_id")
      /\ \A r \in db["task_tags"] :
           /\ r.task_id \in Keys("tasks", "task_id")
           /\ r.tag_id \in Keys("tags", "tag_id")

\* A complete run that committed an assigned task, a subtask of it and a
\* comment on the subtask.
C9_Witness ==
    /\ pc = "done"
    /\ \E r \in db["tasks"], c \in db["comments"] :
         /\ r.parent_task_id # None
         /\ r.assignee_id # None
         /\ c.task_id = r.task_id

\* C10: every subtask generate_subtasks returns has a non-null parent_task_id
\* that is the task_id of a task in the list it was given, and in main that
\* task is a top-level task (its own parent_task_id is null).
C10_SubtaskParentIsTopLevelTask ==
    \A st \in mem.subtasks :
      /\ st.parent_task_id # None
      /\ \E t \in mem.tasks :
           /\ st.parent_task_id = Some(t.task_id)
           /\ t.parent_task_id = None

\* generate_subtasks has returned a subtask.
C10_Witness ==
    /\ pc \in {"comments", "done"}
    /\ mem.subtasks # {}
    /\ \E r \in db["tasks"] : r.parent_task_id # None

\* C13: when an insert fails, the exception leaves main: the store keeps
\* exactly the rows committed before the failing call, and nothing is
\* generated or inserted afterwards.
C13_FailedInsertKeepsEarlierRows ==
    [][ /\ pc' = "insert_failed" => db' = db
        /\ pc = "insert_failed" => UNCHANGED <<pc, db, mem, next_id>> ]_vars

\* An insert has failed after the organization, the users, the teams, the
\* memberships and the projects were committed, and their rows are in the store.
C13_Witness ==
    /\ pc = "insert_failed"
    /\ db["organizations"] # {}
    /\ db["users"] # {}
    /\ db["team_memberships"] # {}
    /\ db["projects"] # {}
    /\ db["sections"] = {}

\* The foreign keys of a row: the table and column each one points to, with
\* the values it holds (none for a null).
References(table_name, r) ==
    CASE table_name \in {"users", "teams", "tags"} ->
           {<<"organizations", "organization_id", {r.organization_id}>>}
      [] table_name = "team_memberships" ->
           {<<"teams", "team_id", {r.team_id}>>, <<"users", "user_id", {r.user_id}>>}
      [] table_name = "projects" ->
           {<<"teams", "team_id", {r.team_id}>>, <<"users", "user_id", r.created_by>>}
      [] table_name \in {"sections", "custom_field_definitions"} ->
           {<<"projects", "project_id", {r.project_id}>>}
      [] table_name = "tasks" ->
           {<<"projects", "project_id", {r.project_id}>>,
            <<"sections", "section_id", {r.section_id}>>,
            <<"users", "user_id", r.assignee_id \cup r.created_by>>,
            <<"tasks", "task_id", r.parent_task_id>>}
      [] table_name = "comments" ->
           {<<"tasks", "task_id", {r.task_id}>>, <<"users", "user_id", {r.user_id}>>}
      [] table_name = "attachments" ->
           {<<"tasks", "task_id", {r.task_id}>>, <<"users", "user_id", r.uploaded_by>>}
      [] table_name = "custom_field_values" ->
           {<<"tasks", "task_id", {r.task_id}>>,
            <<"custom_field_definitions", "custom_field_id", {r.custom_field_id}>>}
      [] table_name = "task_tags" ->
           {<<"tasks", "task_id", {r.task_id}>>, <<"tags", "tag_id", {r.tag_id}>>}
      [] OTHER -> {}

\* C20: a collection is inserted only after the collections it references:
\* whenever a step commits a row, every row that row refers to was committed
\* by an earlier step.
C20_InsertedAfterReferenced ==
    [][ \A t \in Tables : \A r \in db'[t] \ db[t] :
          \A ref \in References(t, r) : ref[3] \subseteq Keys(ref[1], ref[2]) ]_vars

\* A complete run that committed a subtask and a custom field value.
C20_Witness ==
    /\ pc = "done"
    /\ db["custom_field_values"] # {}
    /\ \E r \in db["tasks"] : r.parent_task_id # None

----------------------------------------------------------------------------
(* utils/dates.py: random_date and random_weekday_date as calls of their     *)
(* own, for every start, every later end and every draw.  The while loop of  *)
(* random_weekday_date takes one step per iteration.                         *)

recordVars == <<project, task, subtask, commentVars, fieldVars, runVars>>

\* No record is followed and no run is recorded.
NoRecords ==
    /\ project = None
    /\ task = None
    /\ subtask = None
    /\ comment = None
    /\ attachment = None
    /\ field_def = None
    /\ value_entry = None
    /\ rng = 0
    /\ runs = None

\* main has not started.
NoPipeline ==
    /\ org_size = 0
    /\ num_teams = 0
    /\ next_id = 0
    /\ mem = None
    /\ db = None

InitDates ==
    /\ pc = "call"
    /\ start_date \in {Days(StartDay) + t : t \in 0 .. (TicksPerDay - 1)}
    /\ end_date \in {start_date + d : d \in 1 .. Days(MaxSpanDays)}
    /\ loc \in {[fn |-> f] : f \in {"random_date", "random_weekday_date"}}
    /\ NoRecords
    /\ NoPipeline

\* random_date: random.randrange(days_between) raises ValueError when
\* days_between is not positive.
CallRandomDate ==
    /\ pc = "call"
    /\ IF RandomDateDraws(start_date, end_date) = {}
       THEN /\ pc' = "raised"
            /\ loc' = loc
       ELSE \E random_days \in RandomDateDraws(start_date, end_date) :
              /\ loc' = [fn |-> loc.fn,
                         date |-> random_date(start_date, end_date, random_days)]
              /\ pc' = IF loc.fn = "random_date" THEN "returned" ELSE "adjust"
    /\ UNCHANGED <<start_date, end_date, mainVars, recordVars>>

\* random_weekday_date: the test of `while date.weekday() >= 5` and, when it
\* holds, one pass through the loop body.
AdjustWeekend ==
    /\ pc = "adjust"
    /\ IF Weekday(loc.date) >= 5
       THEN /\ loc' = [loc EXCEPT !.date = IF loc.date < end_date - Days(2)
                                           THEN loc.date + Days(1)
                                           ELSE loc.date - Days(1)]
            /\ pc' = "adjust"
       ELSE /\ loc' = loc
            /\ pc' = "returned"
    /\ UNCHANGED <<start_date, end_date, mainVars, recordVars>>

NextDates ==
    \/ CallRandomDate
    \/ AdjustWeekend

SpecDates == InitDates /\ [][NextDates]_vars

\* The call keeps running: no statement of it is put off for ever.
FairSpecDates == SpecDates /\ WF_vars(NextDates)

\* C18: for start and end at least one day apart, random_weekday_date
\* terminates and returns a date that falls on Monday to Friday.
C18_WeekdayDateReturned ==
    (loc.fn = "random_weekday_date" /\ TimedeltaDays(end_date - start_date) >= 1)
        => <>(pc = "returned" /\ Weekday(loc.date) < 5)

\* C19: for end > start, random_date does not fail and returns a timestamp t
\* with start <= t < end.
C19_RandomDateInRange ==
    (loc.fn = "random_date" /\ end_date > start_date /\ pc # "call")
        => /\ pc = "returned"
           /\ start_date <= loc.date
           /\ loc.date < end_date

----------------------------------------------------------------------------
(* generators/users.py: generate_users, one user per pass of its loop, the   *)
(* `while email in used_emails` loop one step per test.  A name is what      *)
(* name.split() gives: its words.  The columns the e-mail does not depend on *)
(* (role, department, created_at) are drawn in MainUsers.                    *)

MaxCount == 3

\* Names faker.name() can return, as name.split() splits them: names that
\* differ in case only, a middle initial, a last word ending in a digit, and
\* names of one word.
SplitNames ==
    {<<"Ann", "Lee">>, <<"ann", "lee">>, <<"Ann", "M", "Lee">>,
     <<"Ann", "Lee2">>, <<"Cher">>, <<"Ann">>}

\* str.lower()
lower(word) ==
    CASE word = "Ann" -> "ann"
      [] word = "Lee" -> "lee"
      [] word = "Lee2" -> "lee2"
      [] word = "M" -> "m"
      [] word = "Cher" -> "cher"
      [] word = "Update documentation" -> "update documentation"
      [] word = "Q2 Launch - Create landing page" -> "q2 launch - create landing page"
      [] OTHER -> word

first_name(name) == lower(name[1])

last_name(name) == IF Len(name) > 1 THEN lower(name[Len(name)]) ELSE ""

domain == "acme.com"

base_email(name) == first_name(name) \o "." \o last_name(name) \o "@" \o domain

suffixed_email(name, suffix) ==
    first_name(name) \o "." \o last_name(name) \o ToString(suffix) \o "@" \o domain

email_never_taken(email, used_emails) == FALSE

\* The test of `while email in used_emails`.
EmailTaken(email, used_emails) == email \in used_emails

notUsers ==
    <<start_date, end_date, project, task, subtask, commentVars, fieldVars,
      num_teams, db, runVars>>

InitUsers ==
    /\ pc = "name"
    /\ start_date = Days(StartDay)
    /\ end_date = Days(StartDay + 1)
    /\ org_size \in 0 .. MaxCount
    /\ num_teams = 0
    /\ next_id = 0
    /\ mem = [users |-> <<>>, used_emails |-> {}]
    /\ db = None
    /\ loc = [suffix |-> 1]
    /\ NoRecords

\* One pass of the for loop up to `suffix = 1`.
UsersDrawName ==
    /\ pc = "name"
    /\ Len(mem.users) < org_size
    /\ \E name \in SplitNames :
         loc' = [name |-> name, email |-> base_email(name), suffix |-> 1]
    /\ pc' = "unique"
    /\ UNCHANGED <<org_size, next_id, mem, notUsers>>

\* One test of the while loop: the body when the e-mail is taken, and the
\* rest of the pass (used_emails.add, the user dict, users.append) when not.
UsersUniqueEmail ==
    /\ pc = "unique"
    /\ IF EmailTaken(loc.email, mem.used_emails)
       THEN /\ loc' = [loc EXCEPT !.suffix = loc.suffix + 1,
                                  !.email = suffixed_email(loc.name, loc.suffix + 1)]
            /\ UNCHANGED <<pc, mem, next_id>>
       ELSE /\ mem' = [users |-> Append(mem.users,
                                        [user_id |-> next_id + 1,
                                         organization_id |-> 0,
                                         email |-> loc.email,
                                         name |-> loc.name]),
                       used_emails |-> mem.used_emails \cup {loc.email}]
            /\ next_id' = next_id + 1
            /\ pc' = "name"
            /\ loc' = loc
    /\ UNCHANGED <<org_size, notUsers>>

\* `return users` once the for loop has made count passes.
UsersReturn ==
    /\ pc = "name"
    /\ Len(mem.users) = org_size
    /\ pc' = "returned"
    /\ UNCHANGED <<loc, org_size, next_id, mem, notUsers>>

NextUsers ==
    \/ UsersDrawName
    \/ UsersUniqueEmail
    \/ UsersReturn

SpecUsers == InitUsers /\ [][NextUsers]_vars

\* C11: generate_users returns exactly count users whose e-mails are
\* pairwise distinct, whatever names Faker returns, and the suffix loop
\* terminates: the suffix never passes the number of e-mails taken plus one.
C11_DistinctEmails ==
    /\ \A i, j \in DOMAIN mem.users :
         i # j => mem.users[i].email # mem.users[j].email
    /\ pc = "returned" => Len(mem.users) = org_size
    /\ pc = "unique" => loc.suffix <= Cardinality(mem.used_emails) + 1

C11_Witness ==
    /\ pc = "returned"
    /\ org_size = 3
    /\ mem.users[1].name = mem.users[2].name
    /\ mem.users[2].email = "ann.lee2@acme.com"
    /\ mem.users[3].name = <<"Ann", "Lee2">>
    /\ mem.users[3].email = "ann.lee22@acme.com"

----------------------------------------------------------------------------
(* main.py generate_team_memberships, one team per pass of its loop, with a  *)
(* pool of users large enough for a sample to leave users out, and then the  *)
(* assignee draw of generate_tasks for a project of any team, one without a  *)
(* membership entry included.  Users and teams are named by their ids.       *)

MaxPool == 4
MaxPoolTeams == 2

PoolUsers == 1 .. org_size

PoolTeams == (org_size + 1) .. (org_size + num_teams)

\* A team_id no team carries.
NoSuchTeam == 0

may_assign_ignoring_members(drawn, team_members) == drawn

\* `random.random() > 0.15 and team_members`
MayAssign(drawn, team_members) == drawn /\ team_members # {}

notTeams ==
    <<start_date, end_date, project, task, subtask, commentVars, fieldVars,
      db, runVars>>

InitTeams ==
    /\ pc = "memberships"
    /\ start_date = Days(StartDay)
    /\ end_date = Days(StartDay + 1)
    /\ org_size \in 0 .. MaxPool
    /\ num_teams \in 0 .. MaxPoolTeams
    /\ next_id = org_size + num_teams
    /\ mem = [team_memberships_dict |-> [t \in {} |-> {}], memberships |-> {}]
    /\ db = None
    /\ loc = [team_id |-> NoSuchTeam]
    /\ NoRecords

\* One pass of `for team in teams`.
TeamsSample ==
    /\ pc = "memberships"
    /\ PoolTeams \ DOMAIN mem.team_memberships_dict # {}
    /\ LET team_id == CHOOSE t \in PoolTeams \ DOMAIN mem.team_memberships_dict :
                        \A o \in PoolTeams \ DOMAIN mem.team_memberships_dict : t <= o
       IN  \E team_users \in SUBSET PoolUsers :
             /\ Cardinality(team_users) \in TeamSizes(PoolUsers)
             /\ mem' = [team_memberships_dict |->
                          [t \in DOMAIN mem.team_memberships_dict \cup {team_id} |->
                             IF t = team_id THEN team_users
                             ELSE mem.team_memberships_dict[t]],
                        memberships |->
                          mem.memberships \cup
                          {[membership_id |-> next_id + Cardinality({v \in team_users : v <= u}),
                            team_id |-> team_id,
                            user_id |-> u] : u \in team_users}]
             /\ next_id' = next_id + Cardinality(team_users)
    /\ UNCHANGED <<pc, loc, org_size, num_teams, notTeams>>

\* `return memberships`
TeamsReturn ==
    /\ pc = "memberships"
    /\ PoolTeams \ DOMAIN mem.team_memberships_dict = {}
    /\ pc' = "tasks"
    /\ UNCHANGED <<loc, org_size, num_teams, next_id, mem, notTeams>>

\* generate_tasks: team_members of the project's team and the assignee of one
\* of its tasks.  random.choice raises IndexError on an empty list.
TeamsAssign ==
    /\ pc = "tasks"
    /\ \E team_id \in PoolTeams \cup {NoSuchTeam}, drawn \in BOOLEAN :
         LET team_members == TeamMembers(mem.team_memberships_dict, team_id)
         IN  IF MayAssign(drawn, team_members)
             THEN IF team_members = {}
                  THEN /\ pc' = "raised"
                       /\ loc' = [team_id |-> team_id, drawn |-> drawn]
                  ELSE /\ pc' = "assigned"
                       /\ \E m \in team_members :
                            loc' = [team_id |-> team_id, drawn |-> drawn,
                                    assignee_id |-> Some(m)]
             ELSE /\ pc' = "assigned"
                  /\ loc' = [team_id |-> team_id, drawn |-> drawn,
                             assignee_id |-> None]
    /\ UNCHANGED <<org_size, num_teams, next_id, mem, notTeams>>

NextTeams ==
    \/ TeamsSample
    \/ TeamsReturn
    \/ TeamsAssign

SpecTeams == InitTeams /\ [][NextTeams]_vars

\* C12: a top-level task's assignee_id is null or a member of the team that
\* owns its project; when the team has no members or no membership entry the
\* assignee is null, and the draw does not raise.
C12_AssigneeInTeam ==
    /\ pc # "raised"
    /\ pc = "assigned" =>
         loc.assignee_id \subseteq TeamMembers(mem.team_memberships_dict, loc.team_id)

C12_Witness ==
    /\ pc = "assigned"
    /\ loc.drawn
    /\ loc.team_id \in DOMAIN mem.team_memberships_dict
    /\ mem.team_memberships_dict[loc.team_id] = {}
    /\ loc.assignee_id = None

\* C14: with at least 3 users every team has between 3 and 30 membership
\* rows, never more than there are users, no user twice in a team, and the
\* team's entry in team_memberships_dict lists exactly the rows' user_ids.
C14_TeamRows ==
    org_size >= 3 =>
      \A t \in DOMAIN mem.team_memberships_dict :
        LET rows == {r \in mem.memberships : r.team_id = t}
        IN  /\ Cardinality(rows) \in 3 .. 30
            /\ Cardinality(rows) <= org_size
            /\ \A r1, r2 \in rows : r1.user_id = r2.user_id => r1 = r2
            /\ {r.user_id : r \in rows} = mem.team_memberships_dict[t]

C14_Witness ==
    /\ pc = "tasks"
    /\ org_size = 4
    /\ \E t1, t2 \in DOMAIN mem.team_memberships_dict :
         /\ Cardinality({r \in mem.memberships : r.team_id = t1}) = 3
         /\ Cardinality({r \in mem.memberships : r.team_id = t2}) = 4

----------------------------------------------------------------------------
(* generators/projects.py: generate_projects, one project per pass of its    *)
(* loop, with the lists in their order and created_at on every dict.         *)

MaxProjectCount == 2

sections_positioned_from_one(project_id, created_at, base) ==
    [ i \in 1 .. Len(STANDARD_SECTIONS) |->
        [ section_id |-> base + i,
          project_id |-> project_id,
          name       |-> STANDARD_SECTIONS[i],
          position   |-> i,
          created_at |-> IsoFormat(created_at) ] ]

\* _generate_sections: enumerate(STANDARD_SECTIONS) counts from 0.
generate_sections(project_id, created_at, base) ==
    [ i \in 1 .. Len(STANDARD_SECTIONS) |->
        [ section_id |-> base + i,
          project_id |-> project_id,
          name       |-> STANDARD_SECTIONS[i],
          position   |-> i - 1,
          created_at |-> IsoFormat(created_at) ] ]

\* list.sort() of the random_date draws: the non-decreasing series.
SortedCreationTimes(start, end, count) ==
    {times \in [1 .. count -> {random_date(start, end, d) : d \in RandomDateDraws(start, end)}] :
        \A i \in 1 .. (count - 1) : times[i] <= times[i + 1]}

notProjects ==
    <<project, task, subtask, commentVars, fieldVars, org_size, db, runVars>>

\* count is num_projects, num_teams the length of teams.
InitProjects ==
    /\ pc = "creation_times"
    /\ start_date = Days(StartDay)
    /\ end_date \in {start_date + Days(d) : d \in 1 .. MaxSpanDays}
    /\ num_teams \in 0 .. MaxPoolTeams
    /\ loc \in {[count |-> c] : c \in 0 .. MaxProjectCount}
    /\ org_size = 0
    /\ next_id = num_teams
    /\ mem = [creation_times |-> <<>>, projects |-> <<>>, sections |-> <<>>]
    /\ db = None
    /\ NoRecords

\* The creation_times loop and its sort.
ProjectsCreationTimes ==
    /\ pc = "creation_times"
    /\ \E times \in SortedCreationTimes(start_date, end_date, loc.count) :
         mem' = [mem EXCEPT !.creation_times = times]
    /\ pc' = "projects"
    /\ UNCHANGED <<start_date, end_date, loc, num_teams, next_id, notProjects>>

\* One pass of `for i, created_at in enumerate(creation_times)`.
\* random.choice(teams) raises IndexError on an empty list.
ProjectsAppend ==
    /\ pc = "projects"
    /\ Len(mem.projects) < Len(mem.creation_times)
    /\ IF num_teams = 0
       THEN /\ pc' = "raised"
            /\ UNCHANGED <<mem, next_id>>
       ELSE \E team_id \in 1 .. num_teams :
              LET created_at == mem.creation_times[Len(mem.projects) + 1]
                  p == [ project_id |-> next_id + 1,
                         team_id    |-> team_id,
                         created_at |-> IsoFormat(created_at),
                         created_by |-> None ]
              IN  /\ mem' = [mem EXCEPT
                               !.projects = Append(mem.projects, p),
                               !.sections = mem.sections \o
                                   generate_sections(p.project_id, created_at, next_id + 1)]
                  /\ next_id' = next_id + 1 + Len(STANDARD_SECTIONS)
                  /\ pc' = "projects"
    /\ UNCHANGED <<start_date, end_date, loc, num_teams, notProjects>>

\* `return projects, sections`
ProjectsReturn ==
    /\ pc = "projects"
    /\ Len(mem.projects) = Len(mem.creation_times)
    /\ pc' = "returned"
    /\ UNCHANGED <<start_date, end_date, loc, num_teams, next_id, mem, notProjects>>

NextProjects ==
    \/ ProjectsCreationTimes
    \/ ProjectsAppend
    \/ ProjectsReturn

SpecProjects == InitProjects /\ [][NextProjects]_vars

\* C15: every project has exactly 4 sections with its project_id, named
\* To Do, In Progress, In Review, Done in that order, at positions 0, 1, 2, 3
\* in that order, created when the project was; the sections are 4 times
\* the projects.
C15_FourSectionsPerProject ==
    /\ Len(mem.sections) = 4 * Len(mem.projects)
    /\ \A k \in DOMAIN mem.projects :
         LET p == mem.projects[k]
             own == SelectSeq(mem.sections, LAMBDA sec : sec.project_id = p.project_id)
         IN  /\ Len(own) = 4
             /\ [i \in 1 .. 4 |-> own[i].name] = <<"To Do", "In Progress", "In Review", "Done">>
             /\ [i \in 1 .. 4 |-> own[i].position] = <<0, 1, 2, 3>>
             /\ \A i \in 1 .. 4 : own[i].created_at = p.created_at

C15_Witness ==
    /\ pc = "returned"
    /\ Len(mem.projects) = 2
    /\ mem.projects[1].created_at # mem.projects[2].created_at
    /\ mem.sections[8].project_id = mem.projects[2].project_id

----------------------------------------------------------------------------
(* utils/llm.py: LLMGenerator, its constructor and one call of one of its    *)
(* three entry points, for every configuration and every outcome of the      *)
(* backend.  A call's outcome is a record: raised, or the value returned.    *)

Returned(value) == [raised |-> FALSE, value |-> value]

Raised == [raised |-> TRUE]

ProjectTypes == {"engineering", "marketing", "operations", "design"}

TaskNames == {"Update documentation", "Q2 Launch - Create landing page"}

\* _fallback_task_name: random.choice(templates.get(project_type.lower(),
\* templates["engineering"]))
fallback_task_name(project_type) ==
    CASE project_type = "marketing" ->
           {"Create social media campaign", "Write blog post about product launch",
            "Design email newsletter template", "Analyze website analytics",
            "Update product marketing page", "Plan Q2 marketing strategy",
            "Coordinate with PR agency"}
      [] project_type = "operations" ->
           {"Update vendor contracts", "Review security compliance",
            "Onboard new team member", "Schedule team meeting",
            "Update process documentation", "Review budget allocation"}
      [] OTHER ->
           {"Implement user authentication", "Fix bug in payment processing",
            "Refactor database queries", "Add API endpoint for user profiles",
            "Update documentation", "Write unit tests for auth module",
            "Optimize database indexes", "Deploy staging environment"}

\* _fallback_description: rand is below 0.70 or not.
fallback_description(task_name, rand) ==
    IF rand = "below_0.70"
    THEN "This task involves working on " \o lower(task_name)
           \o ". Please ensure all requirements are met."
    ELSE "This task involves " \o lower(task_name)
           \o ".\n\nKey requirements:\n- Review current implementation\n"
           \o "- Make necessary changes\n- Test thoroughly\n"
           \o "- Update documentation as needed"

\* _fallback_comment
fallback_comment ==
    {"Looks good! Starting on this now.", "Any updates on this?",
     "I've run into a blocker - can we sync?", "This is done and ready for review.",
     "Found a related issue, linking it here.", "Can we prioritize this?",
     "Great progress so far!"}

\* What the backend can do with a request: answer with text, answer with a
\* message that has no content, or throw.
BackendOutcomes == {"content", "no_content", "throws"}

\* str.strip() of the content the backend answers with.
strip(content) == IF content = "  Ship the release notes\n" THEN "Ship the release notes" ELSE content

\* client.chat.completions.create(...) and
\* response.choices[0].message.content.strip(): None has no strip.
BackendCall(backend) ==
    CASE backend = "content" -> Returned(strip("  Ship the release notes\n"))
      [] backend = "no_content" -> Raised
      [] OTHER -> Raised

without_except(outcome, fallback) == outcome

\* try: return <backend text>  except Exception: return <fallback>
TryExcept(outcome, fallback) == IF outcome.raised THEN Returned(fallback) ELSE outcome

\* The template path of an entry point: what it returns without a backend.
TemplatePath(entry, project_type, task_name, rand) ==
    CASE entry = "generate_task_name" -> fallback_task_name(project_type)
      [] entry = "generate_comment" -> fallback_comment
      [] OTHER -> IF rand = "below_0.20" THEN {""}
                  ELSE {fallback_description(task_name, rand)}

\* The draws of random.random() an entry point makes before the backend.
RandDraws(entry) ==
    IF entry = "generate_task_description"
    THEN {"below_0.20", "below_0.70", "from_0.70"}
    ELSE {"not_drawn"}

notText ==
    <<start_date, end_date, project, task, subtask, commentVars, fieldVars,
      mainVars, runVars>>

InitText ==
    /\ pc = "init"
    /\ start_date = Days(StartDay)
    /\ end_date = Days(StartDay + 1)
    /\ loc \in [DISABLE_LLM : BOOLEAN, OPENAI_AVAILABLE : BOOLEAN,
                api_key : BOOLEAN, client_raises : BOOLEAN]
    /\ NoPipeline
    /\ NoRecords

\* LLMGenerator.__init__
TextInit ==
    /\ pc = "init"
    /\ LET client == /\ ~loc.DISABLE_LLM
                     /\ loc.OPENAI_AVAILABLE
                     /\ loc.api_key
                     /\ ~loc.client_raises
       IN  loc' = [client |-> client]
    /\ pc' = "ready"
    /\ UNCHANGED notText

\* One call of generate_task_name, generate_task_description or
\* generate_comment.
TextCall ==
    /\ pc = "ready"
    /\ \E entry \in {"generate_task_name", "generate_task_description", "generate_comment"},
          project_type \in ProjectTypes, task_name \in TaskNames,
          backend \in BackendOutcomes :
         \E rand \in RandDraws(entry) :
           \E fallback \in TemplatePath(entry, project_type, task_name, rand) :
             LET outcome == IF rand = "below_0.20" \/ ~loc.client
                            THEN Returned(fallback)
                            ELSE TryExcept(BackendCall(backend), fallback)
             IN  /\ loc' = [client |-> loc.client, entry |-> entry,
                            project_type |-> project_type, task_name |-> task_name,
                            rand |-> rand, backend |-> backend, outcome |-> outcome]
                 /\ pc' = IF outcome.raised THEN "raised" ELSE "returned"
    /\ UNCHANGED notText

NextText ==
    \/ TextInit
    \/ TextCall

SpecText == InitText /\ [][NextText]_vars

\* C17: the three text entry points never raise on a backend failure: with
\* no client, or when the backend call throws, each returns a string of its
\* template path, so the caller always receives a string.
C17_FallbackOnBackendFailure ==
    /\ pc # "raised"
    /\ (pc = "returned" /\ (~loc.client \/ loc.backend # "content")) =>
         /\ ~loc.outcome.raised
         /\ loc.outcome.value \in
              TemplatePath(loc.entry, loc.project_type, loc.task_name, loc.rand)

C17_Witness ==
    /\ pc = "returned"
    /\ loc.client
    /\ loc.backend = "throws"
    /\ loc.entry = "generate_task_description"
    /\ loc.outcome.value =
         "This task involves working on update documentation. Please ensure all requirements are met."

----------------------------------------------------------------------------
(* Further properties of generate_tasks' dates, under Spec *)

\* C21: every completed top-level task has completed_at at least one day
\* after created_at, for every created_at up to and including end_date.
C21_CompletedADayAfterCreated ==
    \A t \in task :
        t.completed =>
          \A c \in t.completed_at :
             FromIsoFormat(c) >= FromIsoFormat(t.created_at) + Days(1)

\* C22: for created_at <= end_date, generate_due_date returns no date or a
\* date d with created_at - 30 days <= d <= end_date, in every bucket and
\* with or without the weekend pull-back.
C22_DueDateInRange ==
    (pc = "completion" /\ loc.created_at <= end_date) =>
       \A d \in loc.due_date :
          /\ loc.created_at - Days(30) <= d
          /\ d <= end_date

\* An overdue date pulled back over a weekend.
C22_Witness ==
    /\ pc = "completion"
    /\ loc.created_at <= end_date
    /\ \E d \in loc.due_date : d < loc.created_at - Days(14)

----------------------------------------------------------------------------
(* generators/attachments.py: the file of an attachment.  A project of some  *)
(* type, the dict generate_tasks appends for one of its tasks, with the keys *)
(* it has, and one attachment of that task.                                  *)

\* dict.get(key, default)
DictGet(dict, key, default) == IF key \in DOMAIN dict THEN dict[key] ELSE default

\* FILE_TYPES: the (name, MIME type) pairs of each category.
FILE_TYPES ==
    [ document |-> {<<"document.pdf", "application/pdf">>,
                    <<"report.docx", "application/vnd.openxmlformats-officedocument.wordprocessingml.document">>,
                    <<"spec.pdf", "application/pdf">>,
                    <<"requirements.docx", "application/vnd.openxmlformats-officedocument.wordprocessingml.document">>,
                    <<"design-brief.pdf", "application/pdf">>},
      image |-> {<<"screenshot.png", "image/png">>, <<"mockup.jpg", "image/jpeg">>,
                 <<"diagram.png", "image/png">>, <<"wireframe.png", "image/png">>,
                 <<"logo.svg", "image/svg+xml">>},
      spreadsheet |-> {<<"data.xlsx", "application/vnd.openxmlformats-officedocument.spreadsheetml.sheet">>,
                       <<"budget.xlsx", "application/vnd.openxmlformats-officedocument.spreadsheetml.sheet">>,
                       <<"tracker.xlsx", "application/vnd.openxmlformats-officedocument.spreadsheetml.sheet">>},
      code |-> {<<"config.json", "application/json">>, <<"script.js", "text/javascript">>,
                <<"styles.css", "text/css">>, <<"README.md", "text/markdown">>},
      archive |-> {<<"archive.zip", "application/zip">>, <<"backup.tar.gz", "application/gzip">>},
      other |-> {<<"notes.txt", "text/plain">>,
                 <<"presentation.pptx", "application/vnd.openxmlformats-officedocument.presentationml.presentation">>,
                 <<"video.mp4", "video/mp4">>} ]

\* _select_file_category: the categories random.choices can return.
select_file_category(project_type) ==
    CASE lower(project_type) = "engineering" ->
           {"document", "image", "code", "spreadsheet", "other"}
      [] lower(project_type) = "marketing" ->
           {"image", "document", "other", "spreadsheet"}
      [] lower(project_type) = "operations" ->
           {"spreadsheet", "document", "archive", "other"}
      [] OTHER -> DOMAIN FILE_TYPES

\* The task dict of generate_tasks, key by key.
FileTaskDict(id, in_project, name) ==
    [ task_id        |-> id,
      project_id     |-> in_project.project_id,
      section_id     |-> in_project.project_id + 1,
      parent_task_id |-> None,
      name           |-> name,
      description    |-> "",
      assignee_id    |-> None,
      due_date       |-> None,
      due_time       |-> None,
      created_at     |-> IsoFormat(start_date),
      completed      |-> FALSE,
      completed_at   |-> None,
      created_by     |-> None,
      priority       |-> "normal" ]

notFiles ==
    <<start_date, end_date, subtask, comment, fieldVars, org_size, num_teams,
      mem, db, runVars>>

InitFiles ==
    /\ pc = "projects"
    /\ start_date = Days(StartDay)
    /\ end_date = Days(StartDay + 1)
    /\ project = None
    /\ task = None
    /\ subtask = None
    /\ loc = NoLocals
    /\ comment = None
    /\ attachment = None
    /\ field_def = None
    /\ value_entry = None
    /\ rng = 0
    /\ runs = None
    /\ NoPipeline

\* generate_projects: the project dict, with its project_type.
FilesProject ==
    /\ pc = "projects"
    /\ \E project_type \in {"engineering", "marketing", "operations"} :
         project' = Some([project_id |-> next_id + 1, project_type |-> project_type])
    /\ next_id' = next_id + 5
    /\ pc' = "tasks"
    /\ UNCHANGED <<task, loc, attachment, notFiles>>

\* generate_tasks: one task of the project, named by the text generator.
FilesTask ==
    /\ pc = "tasks"
    /\ \E in_project \in project :
       \E name \in fallback_task_name(DictGet(in_project, "project_type", "engineering")) :
         task' = Some(FileTaskDict(next_id + 1, in_project, name))
    /\ next_id' = next_id + 1
    /\ pc' = "attachments"
    /\ UNCHANGED <<project, loc, attachment, notFiles>>

\* generate_attachments: one attachment of the task, up to the choice of the
\* file.
FilesAttachment ==
    /\ pc = "attachments"
    /\ \E for_task \in task :
         LET project_type == DictGet(for_task, "project_type", "engineering")
         IN  \E file_category \in select_file_category(project_type) :
             \E file \in FILE_TYPES[file_category] :
               /\ loc' = [project_type |-> project_type, file_category |-> file_category]
               /\ attachment' = Some([attachment_id |-> next_id + 1,
                                      task_id |-> for_task.task_id,
                                      name |-> file[1],
                                      file_type |-> file[2]])
    /\ next_id' = next_id + 1
    /\ pc' = "done"
    /\ UNCHANGED <<project, task, notFiles>>

NextFiles ==
    \/ FilesProject
    \/ FilesTask
    \/ FilesAttachment

SpecFiles == InitFiles /\ [][NextFiles]_vars

\* C23: the file category of an attachment is one of the categories of the
\* project type of its task's project: marketing never gets code, and
\* engineering never gets archive.
C23_CategoryOfProjectType ==
    \A a \in attachment : \A t \in task : \A p \in project :
        (a.task_id = t.task_id /\ t.project_id = p.project_id) =>
            /\ loc.file_category \in select_file_category(p.project_type)
            /\ \E c \in select_file_category(p.project_type) :
                 <<a.name, a.file_type>> \in FILE_TYPES[c]

----------------------------------------------------------------------------
(* generators/tags.py: generate_tags, for a count of a few tags and for the  *)
(* counts around the length of TAG_TEMPLATES.  A sample is the set of the    *)
(* places of its names in TAG_TEMPLATES; the colour, an independent draw     *)
(* per tag, is left out.                                                     *)

MaxTagCount == 2

TAG_TEMPLATES ==
    << "urgent", "blocked", "needs-review", "bug", "feature", "enhancement",
       "documentation", "refactor", "technical-debt", "design", "qa",
       "deployment", "on-hold", "client-request", "internal", "external",
       "security", "performance", "accessibility", "mobile", "web",
       "backend", "frontend", "api", "database", "infrastructure",
       "marketing", "sales", "customer-success", "ops", "finance",
       "q1-2024", "q2-2024", "q3-2024", "q4-2024", "high-priority",
       "low-priority", "stretch-goal", "mvp", "research", "experiment" >>

\* The subsets of S with k elements.
RECURSIVE KSubsets(_, _)
KSubsets(S, k) ==
    IF k = 0 THEN {{}}
    ELSE UNION { {T \cup {x} : x \in S \ T} : T \in KSubsets(S, k - 1) }

\* random.sample(population, k), as the set of the places drawn: by what is
\* drawn for a small k, by what is left out for a large one.
random_sample(population, k) ==
    IF 2 * k <= Len(population)
    THEN KSubsets(DOMAIN population, k)
    ELSE {DOMAIN population \ out : out \in KSubsets(DOMAIN population, Len(population) - k)}

tag_named_first(base, place, selected) ==
    [ tag_id |-> base + Cardinality({q \in selected : q <= place}),
      organization_id |-> 0,
      name |-> TAG_TEMPLATES[1] ]

\* The tag dict of one selected name.
TagDict(base, place, selected) ==
    [ tag_id |-> base + Cardinality({q \in selected : q <= place}),
      organization_id |-> 0,
      name |-> TAG_TEMPLATES[place] ]

\* The counts followed: a few tags, and the length of TAG_TEMPLATES with one
\* less and one more.
TagCounts ==
    (0 .. MaxTagCount)
      \cup {Len(TAG_TEMPLATES) - 1, Len(TAG_TEMPLATES), Len(TAG_TEMPLATES) + 1}

notTags ==
    <<start_date, end_date, project, task, subtask, commentVars, fieldVars,
      org_size, num_teams, db, runVars>>

InitTags ==
    /\ pc = "tags"
    /\ start_date = Days(StartDay)
    /\ end_date = Days(StartDay + 1)
    /\ loc \in {[count |-> c] : c \in TagCounts}
    /\ org_size = 0
    /\ num_teams = 0
    /\ next_id = 0
    /\ mem = [tags |-> {}]
    /\ db = None
    /\ NoRecords

\* generate_tags(org_id, count)
GenerateTags ==
    /\ pc = "tags"
    /\ \E selected_names \in random_sample(TAG_TEMPLATES, Min(loc.count, Len(TAG_TEMPLATES))) :
         /\ mem' = [tags |-> {TagDict(next_id, place, selected_names) : place \in selected_names}]
         /\ next_id' = next_id + Cardinality(selected_names)
    /\ pc' = "returned"
    /\ UNCHANGED <<loc, notTags>>

NextTags == GenerateTags

SpecTags == InitTags /\ [][NextTags]_vars

\* C24 as stated: generate_tags returns min(count, 40) tags with pairwise
\* distinct names, never more than 40.
C24_AtMostFortyTags ==
    pc = "returned" =>
      /\ Cardinality(mem.tags) = Min(loc.count, 40)
      /\ Cardinality(mem.tags) <= 40
      /\ \A t1, t2 \in mem.tags : t1.name = t2.name => t1 = t2

\* C24, amended: generate_tags returns min(count, 41) tags with pairwise
\* distinct names, never more than the 41 names of TAG_TEMPLATES.
C24_AtMostVocabularyTags ==
    pc = "returned" =>
      /\ Cardinality(mem.tags) = Min(loc.count, 41)
      /\ Cardinality(mem.tags) <= 41
      /\ \A t1, t2 \in mem.tags : t1.name = t2.name => t1 = t2

C24_Witness ==
    /\ pc = "returned"
    /\ loc.count = 42
    /\ Cardinality(mem.tags) = 41
    /\ \E t \in mem.tags : t.name = "experiment"

----------------------------------------------------------------------------
(* generators/tags.py: generate_task_tags, one task per pass of its loop,    *)
(* over a pool of tags that can be smaller or larger than the count drawn.   *)
(* Tags and tasks are named by their ids; task_tags is the list returned.    *)

MaxTagPool == 5
MaxTaggedTasks == 2

\* The elements of a set of ids in ascending order.
RECURSIVE Ascending(_)
Ascending(S) ==
    IF S = {} THEN <<>>
    ELSE LET least == CHOOSE x \in S : \A y \in S : x <= y
         IN  <<least>> \o Ascending(S \ {least})

choices_with_replacement(tags, k) == [1 .. k -> tags]

\* random.sample(tags, k): k tags, none of them twice.
SelectedTags(tags, k) == {Ascending(T) : T \in KSubsets(tags, k)}

notTaskTags ==
    <<start_date, end_date, project, task, subtask, commentVars, fieldVars,
      org_size, num_teams, next_id, db, runVars>>

InitTaskTags ==
    /\ pc = "task_tags"
    /\ start_date = Days(StartDay)
    /\ end_date = Days(StartDay + 1)
    /\ \E pool \in 0 .. MaxTagPool, num_tasks \in 0 .. MaxTaggedTasks :
         mem = [tags |-> 1 .. pool,
                tasks |-> (pool + 1) .. (pool + num_tasks),
                task_tags |-> <<>>]
    /\ loc = [num_tags |-> <<>>]
    /\ org_size = 0
    /\ num_teams = 0
    /\ next_id = 0
    /\ db = None
    /\ NoRecords

\* One pass of `for task in tasks`: loc.num_tags keeps the count drawn for
\* each task so far.
TaskTagsPass ==
    /\ pc = "task_tags"
    /\ Len(loc.num_tags) < Cardinality(mem.tasks)
    /\ LET task_id == Ascending(mem.tasks)[Len(loc.num_tags) + 1]
       IN  \E num_tags \in 0 .. 4 :
             /\ loc' = [num_tags |-> Append(loc.num_tags, num_tags)]
             /\ IF num_tags > 0 /\ mem.tags # {}
                THEN \E selected_tags \in
                          SelectedTags(mem.tags, Min(num_tags, Cardinality(mem.tags))) :
                       mem' = [mem EXCEPT !.task_tags =
                                 mem.task_tags \o
                                 [i \in DOMAIN selected_tags |->
                                    [task_id |-> task_id, tag_id |-> selected_tags[i]]]]
                ELSE mem' = mem
    /\ UNCHANGED <<pc, notTaskTags>>

\* `return task_tags`
TaskTagsReturn ==
    /\ pc = "task_tags"
    /\ Len(loc.num_tags) = Cardinality(mem.tasks)
    /\ pc' = "returned"
    /\ UNCHANGED <<loc, mem, notTaskTags>>

NextTaskTags ==
    \/ TaskTagsPass
    \/ TaskTagsReturn

SpecTaskTags == InitTaskTags /\ [][NextTaskTags]_vars

\* C28: generate_task_tags emits at most 4 rows per task and never the same
\* (task_id, tag_id) pair twice, also when the pool holds fewer tags than the
\* count drawn; a task whose count is 0, and every task when the pool is
\* empty, gets no row.
C28_TaskTagRows ==
    /\ \A i, j \in DOMAIN mem.task_tags :
         i # j => mem.task_tags[i] # mem.task_tags[j]
    /\ \A k \in DOMAIN loc.num_tags :
         LET task_id == Ascending(mem.tasks)[k]
             rows == SelectSeq(mem.task_tags, LAMBDA r : r.task_id = task_id)
         IN  /\ Len(rows) <= 4
             /\ (loc.num_tags[k] = 0 \/ mem.tags = {}) => Len(rows) = 0

\* A pool of 3 tags, a first task that drew 4 and got the 3, a second that
\* drew 0.
C28_Witness ==
    /\ pc = "returned"
    /\ Cardinality(mem.tags) = 3
    /\ loc.num_tags = <<4, 0>>
    /\ Len(mem.task_tags) = 3

----------------------------------------------------------------------------
(* generators/tasks.py: generate_subtasks over a list of task dicts, one     *)
(* parent per pass of its outer loop.  One subtask of one parent is followed *)
(* with all its keys; of the others the number per parent is kept.           *)
(* subtask_ratio is a number of hundredths.                                  *)

MaxParentPool == 5

\* The ratios followed, in hundredths: the default 0.20 among them.
Ratios == {0, 20, 50}

subtask_templates ==
    {"Review ", "Test ", "Document ", "Design ", "Implement ", "Refactor ",
     "Update ", "Finalize "}

\* The k-th dict of the list generate_tasks returned: with and without an
\* assignee, with and without a due date, completed or not.
PoolTask(k) ==
    [ task_id        |-> k,
      project_id     |-> 100 + (k % 2),
      section_id     |-> 200 + (k % 4),
      parent_task_id |-> None,
      name           |-> IF k % 2 = 0 THEN "Update documentation"
                         ELSE "Q2 Launch - Create landing page",
      description    |-> IF k % 2 = 0 THEN "" ELSE fallback_description("Update documentation", "below_0.70"),
      assignee_id    |-> IF k % 2 = 0 THEN None ELSE Some(300 + k),
      due_date       |-> IF k % 3 = 0 THEN None ELSE Some(IsoFormat(Days(StartDay + k))),
      due_time       |-> None,
      created_at     |-> IsoFormat(Days(StartDay) + k),
      completed      |-> k % 2 = 1,
      completed_at   |-> IF k % 2 = 1 THEN Some(IsoFormat(Days(StartDay + 1) + k)) ELSE None,
      created_by     |-> IF k = 4 THEN None ELSE Some(300),
      priority       |-> IF k % 2 = 0 THEN "normal" ELSE "urgent" ]

parents_with_replacement(tasks, k) == [1 .. k -> tasks]

\* random.sample(tasks, k): k tasks, none of them twice.
ParentTasks(tasks, k) == {Ascending(T) : T \in KSubsets(tasks, k)}

subtask_dict_unassigned(id, parent_task, template, offset, completed, days_to_complete) ==
    [ task_id        |-> id,
      project_id     |-> parent_task.project_id,
      section_id     |-> parent_task.section_id,
      parent_task_id |-> Some(parent_task.task_id),
      name           |-> template \o lower(parent_task.name),
      description    |-> "",
      assignee_id    |-> None,
      due_date       |-> DictGet(parent_task, "due_date", None),
      due_time       |-> None,
      created_at     |-> IsoFormat(FromIsoFormat(parent_task.created_at) + Days(offset)),
      completed      |-> completed,
      completed_at   |-> IF completed
                         THEN Some(IsoFormat(FromIsoFormat(parent_task.created_at)
                                             + Days(offset) + Days(days_to_complete)))
                         ELSE None,
      created_by     |-> DictGet(parent_task, "created_by", None),
      priority       |-> DictGet(parent_task, "priority", "normal") ]

\* The subtask dict, key by key: offset is randint(0, 5), days_to_complete
\* randint(1, 7).
SubtaskDict(id, parent_task, template, offset, completed, days_to_complete) ==
    [ task_id        |-> id,
      project_id     |-> parent_task.project_id,
      section_id     |-> parent_task.section_id,
      parent_task_id |-> Some(parent_task.task_id),
      name           |-> template \o lower(parent_task.name),
      description    |-> "",
      assignee_id    |-> DictGet(parent_task, "assignee_id", None),
      due_date       |-> DictGet(parent_task, "due_date", None),
      due_time       |-> None,
      created_at     |-> IsoFormat(FromIsoFormat(parent_task.created_at) + Days(offset)),
      completed      |-> completed,
      completed_at   |-> IF completed
                         THEN Some(IsoFormat(FromIsoFormat(parent_task.created_at)
                                             + Days(offset) + Days(days_to_complete)))
                         ELSE None,
      created_by     |-> DictGet(parent_task, "created_by", None),
      priority       |-> DictGet(parent_task, "priority", "normal") ]

notSubtasks ==
    <<start_date, end_date, project, task, commentVars, fieldVars,
      org_size, num_teams, db, runVars>>

\* mem.tasks is the list given, mem.emitted the number of subtasks appended
\* for each task of it.
InitSubtasks ==
    /\ pc = "sample"
    /\ start_date = Days(StartDay)
    /\ end_date = Days(StartDay + MaxSpanDays)
    /\ \E len \in 0 .. MaxParentPool, subtask_ratio \in Ratios :
         /\ mem = [tasks |-> [k \in 1 .. len |-> PoolTask(k)],
                   emitted |-> [k \in 1 .. len |-> 0]]
         /\ loc = [subtask_ratio |-> subtask_ratio]
         /\ next_id = len
    /\ project = None
    /\ task = None
    /\ subtask = None
    /\ comment = None
    /\ attachment = None
    /\ field_def = None
    /\ value_entry = None
    /\ org_size = 0
    /\ num_teams = 0
    /\ db = None
    /\ rng = 0
    /\ runs = None

\* num_parent_tasks and the sample of the parents.
SubtasksSample ==
    /\ pc = "sample"
    /\ LET num_parent_tasks == (Len(mem.tasks) * loc.subtask_ratio) \div 100
       IN  \E parent_tasks \in ParentTasks(DOMAIN mem.tasks,
                                           Min(num_parent_tasks, Len(mem.tasks))) :
           \E follow \in 1 .. Max(Len(parent_tasks), 1) :
             loc' = [subtask_ratio |-> loc.subtask_ratio,
                     parent_tasks |-> parent_tasks, passes |-> 0, follow |-> follow]
    /\ pc' = "parents"
    /\ UNCHANGED <<subtask, mem, next_id, notSubtasks>>

\* One pass of `for parent_task in parent_tasks`: in the pass loc.follow the
\* subtask appended last is the one followed.
SubtasksPass ==
    /\ pc = "parents"
    /\ loc.passes < Len(loc.parent_tasks)
    /\ LET parent == loc.parent_tasks[loc.passes + 1]
           parent_task == mem.tasks[parent]
       IN  \E num_subtasks \in 2 .. 5 :
             /\ IF loc.passes + 1 = loc.follow
                THEN \E template \in subtask_templates, offset \in 0 .. 5,
                        completed \in BOOLEAN :
                     \E days_to_complete \in (IF completed THEN 1 .. 7 ELSE {1}) :
                       subtask' = Some(SubtaskDict(next_id + num_subtasks, parent_task,
                                                   template, offset, completed,
                                                   days_to_complete))
                ELSE subtask' = subtask
             /\ mem' = [mem EXCEPT !.emitted[parent] = mem.emitted[parent] + num_subtasks]
             /\ next_id' = next_id + num_subtasks
    /\ loc' = [loc EXCEPT !.passes = loc.passes + 1]
    /\ UNCHANGED <<pc, notSubtasks>>

\* `return subtasks`
SubtasksReturn ==
    /\ pc = "parents"
    /\ loc.passes = Len(loc.parent_tasks)
    /\ pc' = "returned"
    /\ UNCHANGED <<subtask, loc, mem, next_id, notSubtasks>>

NextSubtasks ==
    \/ SubtasksSample
    \/ SubtasksPass
    \/ SubtasksReturn

SpecSubtasks == InitSubtasks /\ [][NextSubtasks]_vars

\* C25: a subtask has its parent's project_id, section_id, assignee_id,
\* due_date, created_by and priority, an empty description, and a created_at
\* a whole number of days, 0 to 5, after the parent's.
C25_SubtaskInheritsFromParent ==
    \A s \in subtask : \A p \in s.parent_task_id :
        LET parent_task == mem.tasks[p]
            days == FromIsoFormat(s.created_at) - FromIsoFormat(parent_task.created_at)
        IN  /\ s.project_id = parent_task.project_id
            /\ s.section_id = parent_task.section_id
            /\ s.assignee_id = parent_task.assignee_id
            /\ s.due_date = parent_task.due_date
            /\ s.created_by = parent_task.created_by
            /\ s.priority = parent_task.priority
            /\ s.description = ""
            /\ days \in {Days(n) : n \in 0 .. 5}
            /\ FromIsoFormat(s.created_at) >= FromIsoFormat(parent_task.created_at)

\* A subtask of a parent with an assignee, a due date and the urgent
\* priority, created 5 days after it.
C25_Witness ==
    \E s \in subtask : \E p \in s.parent_task_id :
        /\ s.assignee_id # None
        /\ s.due_date # None
        /\ s.priority = "urgent"
        /\ FromIsoFormat(s.created_at) = FromIsoFormat(mem.tasks[p].created_at) + Days(5)

\* C27: the parents are exactly floor(len(tasks) * ratio) pairwise distinct
\* tasks, each parent gets 2 to 5 subtasks, so the subtasks number between 2
\* and 5 times the parents, and a task not selected has no subtask.
C27_ParentsAndSubtaskCounts ==
    pc \in {"parents", "returned"} =>
      /\ Len(loc.parent_tasks) = (Len(mem.tasks) * loc.subtask_ratio) \div 100
      /\ \A i, j \in DOMAIN loc.parent_tasks :
           i # j => loc.parent_tasks[i] # loc.parent_tasks[j]
      /\ \A k \in DOMAIN mem.tasks :
           IF \E i \in 1 .. loc.passes : loc.parent_tasks[i] = k
           THEN mem.emitted[k] \in 2 .. 5
           ELSE mem.emitted[k] = 0
      /\ pc = "returned" =>
           /\ next_id - Len(mem.tasks) >= 2 * Len(loc.parent_tasks)
           /\ next_id - Len(mem.tasks) <= 5 * Len(loc.parent_tasks)

\* 5 tasks at ratio 0.50: 2 parents, one with 2 subtasks and one with 5.
C27_Witness ==
    /\ pc = "returned"
    /\ Len(mem.tasks) = 5
    /\ loc.subtask_ratio = 50
    /\ Len(loc.parent_tasks) = 2
    /\ \E k \in DOMAIN mem.tasks : mem.emitted[k] = 2
    /\ \E k \in DOMAIN mem.tasks : mem.emitted[k] = 5
    /\ \E k \in DOMAIN mem.tasks : mem.emitted[k] = 0

----------------------------------------------------------------------------
(* generators/teams.py: generate_teams, for a count of a few teams and for   *)
(* the counts around the length of TEAM_NAME_TEMPLATES, over a window of one *)
(* day.                                                                      *)

MaxTeamCount == 2

TEAM_NAME_TEMPLATES ==
    << "Product Engineering", "Platform Team", "Frontend Team", "Backend Services",
       "Infrastructure", "Data Engineering", "Mobile Engineering", "QA & Testing",
       "Product Marketing", "Growth Marketing", "Content Marketing", "Brand Marketing",
       "Demand Generation", "Sales Operations", "Customer Success",
       "Support Engineering", "Product Management", "UX Design", "DevOps", "Security",
       "Finance", "People Operations", "Legal", "Business Operations" >>

filler_unnumbered(i) == "Team"

\* f"Team {i+1}"
FillerName(i) == "Team " \o ToString(i + 1)

\* selected_names after the numbered variations are appended: the sample,
\* then Team 1, Team 2, ...
SelectedNames(selected, count) ==
    [k \in DOMAIN Ascending(selected) |-> TEAM_NAME_TEMPLATES[Ascending(selected)[k]]]
      \o [k \in 1 .. Max(count - Len(TEAM_NAME_TEMPLATES), 0) |-> FillerName(k - 1)]

\* The counts followed: a few teams, and the length of TEAM_NAME_TEMPLATES
\* with one less, one more and two more.
TeamCounts ==
    (0 .. MaxTeamCount)
      \cup {Len(TEAM_NAME_TEMPLATES) + d : d \in -1 .. 2}

notTeamNames ==
    <<start_date, end_date, project, task, subtask, loc, commentVars, fieldVars,
      org_size, db, runVars>>

\* num_teams is count.
InitTeamNames ==
    /\ pc = "teams"
    /\ start_date = Days(StartDay)
    /\ end_date = Days(StartDay + 1)
    /\ loc = NoLocals
    /\ org_size = 0
    /\ num_teams \in TeamCounts
    /\ next_id = 0
    /\ mem = [teams |-> <<>>]
    /\ db = None
    /\ NoRecords

\* generate_teams(count, org_id, start_date, end_date)
GenerateTeams ==
    /\ pc = "teams"
    /\ \E selected \in random_sample(TEAM_NAME_TEMPLATES,
                                    Min(num_teams, Len(TEAM_NAME_TEMPLATES))) :
         LET selected_names == SubSeq(SelectedNames(selected, num_teams), 1, num_teams)
         IN  \E created_at \in [DOMAIN selected_names ->
                                  {random_date(start_date, end_date, d) :
                                     d \in RandomDateDraws(start_date, end_date)}] :
               mem' = [teams |->
                         [i \in DOMAIN selected_names |->
                            [ team_id         |-> next_id + i,
                              organization_id |-> 0,
                              name            |-> selected_names[i],
                              description     |-> selected_names[i]
                                                  \o " team responsible for core initiatives.",
                              created_at      |-> IsoFormat(created_at[i]) ]]]
    /\ next_id' = next_id + num_teams
    /\ pc' = "returned"
    /\ UNCHANGED <<num_teams, notTeamNames>>

NextTeamNames == GenerateTeams

SpecTeamNames == InitTeamNames /\ [][NextTeamNames]_vars

\* C30: generate_teams returns exactly count teams with pairwise distinct
\* names for every count >= 0; past the 24 names of the vocabulary the teams
\* are named Team 1, Team 2, and so on.
C30_CountTeamsDistinctNames ==
    pc = "returned" =>
      /\ Len(mem.teams) = num_teams
      /\ \A i, j \in DOMAIN mem.teams : i # j => mem.teams[i].name # mem.teams[j].name
      /\ \A i \in DOMAIN mem.teams :
           i > 24 => mem.teams[i].name = "Team " \o ToString(i - 24)

C30_Witness ==
    /\ pc = "returned"
    /\ num_teams = 26
    /\ mem.teams[24].name = "Business Operations"
    /\ mem.teams[25].name = "Team 1"
    /\ mem.teams[26].name = "Team 2"

----------------------------------------------------------------------------
(* generators/custom_fields.py: generate_custom_fields over a list of        *)
(* projects, one project per pass of its loop; custom_fields is the list     *)
(* returned.                                                                 *)

\* The keys of FIELD_TEMPLATES in the order of the dict.
FieldNames ==
    <<"Priority", "Status", "Effort", "Sprint", "Budget", "Target Date", "Owner",
      "Category">>

\* list(FIELD_TEMPLATES.items())[place]
FieldTemplateAt(place) == CHOOSE t \in FIELD_TEMPLATES : t.name = FieldNames[place]

\* The lists of projects followed: the prefixes of an engineering project
\* followed by a marketing one.
FieldProjects ==
    <<[project_id |-> 1, project_type |-> "engineering"],
      [project_id |-> 2, project_type |-> "marketing"]>>

notFieldDefs ==
    <<start_date, end_date, project, task, subtask, commentVars, fieldVars,
      org_size, num_teams, db, runVars>>

InitFieldDefs ==
    /\ pc = "custom_fields"
    /\ start_date = Days(StartDay)
    /\ end_date = Days(StartDay + 1)
    /\ \E len \in 0 .. Len(FieldProjects) :
         /\ mem = [projects |-> SubSeq(FieldProjects, 1, len), custom_fields |-> <<>>]
         /\ next_id = len
    /\ loc = [passes |-> 0]
    /\ org_size = 0
    /\ num_teams = 0
    /\ db = None
    /\ NoRecords

\* One pass of `for project in projects`.
FieldDefsPass ==
    /\ pc = "custom_fields"
    /\ loc.passes < Len(mem.projects)
    /\ LET in_project == mem.projects[loc.passes + 1] IN
       \E has_fields \in BOOLEAN :
         IF ~has_fields
         THEN UNCHANGED <<mem, next_id>>
         ELSE \E num_fields \in 2 .. 5 :
              \E selected \in KSubsets(DOMAIN FieldNames, Min(num_fields, Len(FieldNames))) :
                LET selected_templates == Ascending(selected)
                IN  /\ mem' = [mem EXCEPT !.custom_fields =
                                 mem.custom_fields \o
                                 [i \in DOMAIN selected_templates |->
                                    CustomField(FieldTemplateAt(selected_templates[i]),
                                                next_id + i)
                                      @@ [project_id |-> in_project.project_id]]]
                    /\ next_id' = next_id + Len(selected_templates)
    /\ loc' = [passes |-> loc.passes + 1]
    /\ UNCHANGED <<pc, notFieldDefs>>

\* `return custom_fields`
FieldDefsReturn ==
    /\ pc = "custom_fields"
    /\ loc.passes = Len(mem.projects)
    /\ pc' = "returned"
    /\ UNCHANGED <<loc, mem, next_id, notFieldDefs>>

NextFieldDefs ==
    \/ FieldDefsPass
    \/ FieldDefsReturn

SpecFieldDefs == InitFieldDefs /\ [][NextFieldDefs]_vars

\* C29: every project has no custom field definition or 2 to 5 of them with
\* pairwise distinct names, and enum_options is non-null exactly in the
\* definitions of type enum or multi_enum.
C29_FieldDefinitions ==
    /\ \A k \in DOMAIN mem.projects :
         LET own == SelectSeq(mem.custom_fields,
                              LAMBDA f : f.project_id = mem.projects[k].project_id)
         IN  /\ Len(own) = 0 \/ Len(own) \in 2 .. 5
             /\ \A i, j \in DOMAIN own : i # j => own[i].name # own[j].name
    /\ \A i \in DOMAIN mem.custom_fields :
         mem.custom_fields[i].enum_options # None
           <=> mem.custom_fields[i].field_type \in {"enum", "multi_enum"}

\* An engineering project with 5 definitions, a number and a multi_enum
\* among them, and a marketing project with none.
C29_Witness ==
    /\ pc = "returned"
    /\ Len(mem.projects) = 2
    /\ Len(mem.custom_fields) = 5
    /\ \A i \in DOMAIN mem.custom_fields : mem.custom_fields[i].project_id = 1
    /\ \E i \in DOMAIN mem.custom_fields : mem.custom_fields[i].field_type = "number"
    /\ \E i \in DOMAIN mem.custom_fields : mem.custom_fields[i].field_type = "multi_enum"

============================================================================
